---- MODULE Spec2Model ----
(***************************************************************************)
(* Model of the data-gone-60 pipeline.  This part covers the batch         *)
(* dispatcher (src/src/sendToExternalBatch.ts): the SQS-triggered handler, *)
(* postBatch with its retry loop, the external sink as seen through        *)
(* fetch(), and the queue that invokes the handler and redelivers a batch  *)
(* when the handler raises.                                                *)
(***************************************************************************)
EXTENDS Integers, Sequences, FiniteSets, TLC

(***************************************************************************)
(* Bounds of the model.                                                    *)
(***************************************************************************)
\* largest number of messages on the queue (and so in one delivered batch)
MaxQueue == 3
\* how many times the queue hands the same messages to the handler
MaxReceive == 2

(***************************************************************************)
(* Program constants.                                                      *)
(***************************************************************************)
MAX_RETRIES == 3
\* SQSTrigger BatchSize of the event source mapping
BatchSize == 10

(***************************************************************************)
(* Inputs: message bodies found on the queue and the sink's answers.       *)
(***************************************************************************)
\* record.body values: two row objects (the second with insignificant white
\* space), the JSON literal null, and a text that is not JSON
Bodies ==
  { "{\"sensorid\":\"s1\"}", "{ \"sensorid\" : \"s2\" }", "null", "not json" }
\* response.status values on both sides of the 2xx range
Statuses == {200, 204, 299, 300, 500}
\* response body texts
Texts == {"ok", "busy"}

\* JavaScript values as JSON.parse produces them
Value(type, num, str, items, fields) ==
  [type |-> type, num |-> num, str |-> str, items |-> items, fields |-> fields]
VUndefined == Value("undefined", 0, "", <<>>, <<>>)
VNull == Value("null", 0, "", <<>>, <<>>)
VNumber(n) == Value("number", n, "", <<>>, <<>>)
VTrue == Value("boolean", 1, "", <<>>, <<>>)
VFalse == Value("boolean", 0, "", <<>>, <<>>)
VString(s) == Value("string", 0, s, <<>>, <<>>)
VArray(items) == Value("array", 0, "", items, <<>>)
VObject(fields) == Value("object", 0, "", <<>>, fields)
\* one own property of an object, in insertion order
Field(k, v) == [key |-> k, val |-> v]

CharAt(s, i) == SubSeq(s, i, i)

\* the characters JSON.stringify escapes inside a string
RECURSIVE EscapeFrom(_, _)
EscapeFrom(s, i) ==
  IF i > Len(s) THEN ""
  ELSE LET c == CharAt(s, i)
       IN (IF c = "\n" THEN "\\n"
           ELSE IF c = "\"" THEN "\\\""
           ELSE IF c = "\\" THEN "\\\\"
           ELSE c) \o EscapeFrom(s, i + 1)
JSONQuote(s) == "\"" \o EscapeFrom(s, 1) \o "\""

\* JSON.stringify(value) without indentation
RECURSIVE Stringify(_), StringifyItems(_, _), StringifyFields(_, _)
Stringify(v) ==
  CASE v.type = "number" -> ToString(v.num)
    [] v.type = "boolean" -> (IF v.num = 1 THEN "true" ELSE "false")
    [] v.type = "string" -> JSONQuote(v.str)
    [] v.type = "array" -> "[" \o StringifyItems(v.items, 1) \o "]"
    [] v.type = "object" -> "{" \o StringifyFields(v.fields, 1) \o "}"
    [] OTHER -> "null"
StringifyItems(items, i) ==
  IF i > Len(items) THEN ""
  ELSE Stringify(items[i])
       \o (IF i < Len(items) THEN "," ELSE "")
       \o StringifyItems(items, i + 1)
StringifyFields(fields, i) ==
  IF i > Len(fields) THEN ""
  ELSE JSONQuote(fields[i].key) \o ":" \o Stringify(fields[i].val)
       \o (IF i < Len(fields) THEN "," ELSE "")
       \o StringifyFields(fields, i + 1)

HasField(v, k) ==
  v.type = "object" /\ \E i \in 1..Len(v.fields) : v.fields[i].key = k
GetField(v, k) ==
  IF HasField(v, k)
    THEN v.fields[CHOOSE i \in 1..Len(v.fields) : v.fields[i].key = k].val
    ELSE VUndefined

Truthy(v) ==
  CASE v.type = "undefined" -> FALSE
    [] v.type = "null" -> FALSE
    [] v.type = "string" -> v.str # ""
    [] v.type = "number" -> v.num # 0
    [] v.type = "boolean" -> v.num # 0
    [] OTHER -> TRUE

Digits == "0123456789"
IsDigit(c) == \E i \in 1..10 : CharAt(Digits, i) = c
DigitValue(c) == (CHOOSE i \in 1..10 : CharAt(Digits, i) = c) - 1
AllDigits(s) == \A i \in 1..Len(s) : IsDigit(CharAt(s, i))
RECURSIVE ToNumber(_)
ToNumber(s) ==
  IF Len(s) = 0 THEN 0
  ELSE ToNumber(SubSeq(s, 1, Len(s) - 1)) * 10 + DigitValue(CharAt(s, Len(s)))


\* the result of reading one JSON value: the value and the position after it
Read(val, next) == [ok |-> TRUE, val |-> val, str |-> "", next |-> next]
ReadText(str, next) == [ok |-> TRUE, val |-> VUndefined, str |-> str, next |-> next]
Unreadable == [ok |-> FALSE, val |-> VUndefined, str |-> "", next |-> 0]

\* the character at a position, "" past the end of the text
At(t, i) == IF i >= 1 /\ i <= Len(t) THEN CharAt(t, i) ELSE ""
JsonSpace == {" ", "\n", "\t", "\r"}
RECURSIVE SkipSpace(_, _)
SkipSpace(t, i) ==
  IF At(t, i) \in JsonSpace THEN SkipSpace(t, i + 1) ELSE i

\* the first position of lo..hi whose character is in cs (member = TRUE) or
\* is not in cs (member = FALSE); 0 when there is none
RECURSIVE FirstWhere(_, _, _, _, _)
FirstWhere(t, cs, member, lo, hi) ==
  IF lo > hi THEN 0
  ELSE IF lo = hi
    THEN (IF (CharAt(t, lo) \in cs) = member THEN lo ELSE 0)
  ELSE LET mid == (lo + hi) \div 2
           left == FirstWhere(t, cs, member, lo, mid)
       IN IF left # 0 THEN left ELSE FirstWhere(t, cs, member, mid + 1, hi)

\* the character an escape sequence stands for, "" for one not supported
Unescape(e) ==
  CASE e = "n" -> "\n"
    [] e = "t" -> "\t"
    [] e = "r" -> "\r"
    [] e = "\"" -> "\""
    [] e = "\\" -> "\\"
    [] e = "/" -> "/"
    [] OTHER -> ""

\* the text of a JSON string whose first character is at position i
RECURSIVE ReadString(_, _)
ReadString(t, i) ==
  LET stop == FirstWhere(t, {"\"", "\\", "\n", "\t", "\r"}, TRUE, i, Len(t))
  IN IF stop = 0 THEN Unreadable
     ELSE IF CharAt(t, stop) = "\""
       THEN ReadText(SubSeq(t, i, stop - 1), stop + 1)
     ELSE IF CharAt(t, stop) = "\\" /\ Unescape(At(t, stop + 1)) # ""
       THEN LET rest == ReadString(t, stop + 2)
            IN IF rest.ok
                 THEN ReadText(SubSeq(t, i, stop - 1)
                                 \o Unescape(At(t, stop + 1)) \o rest.str,
                               rest.next)
                 ELSE Unreadable
     ELSE Unreadable

\* an integer literal at position i (the inputs of the model hold no
\* fractions and no exponents)
ReadNumber(t, i) ==
  LET first == IF At(t, i) = "-" THEN i + 1 ELSE i
      stop == FirstWhere(t, {CharAt(Digits, d) : d \in 1..10}, FALSE,
                         first, Len(t))
      last == IF stop = 0 THEN Len(t) ELSE stop - 1
      digits == SubSeq(t, first, last)
  IN IF last < first \/ (Len(digits) > 1 /\ CharAt(digits, 1) = "0")
          \/ At(t, last + 1) \in {".", "e", "E"}
       THEN Unreadable
       ELSE Read(VNumber(IF first = i THEN ToNumber(digits)
                         ELSE 0 - ToNumber(digits)), last + 1)

\* obj[key] = val: a repeated key keeps its place and takes the new value
PutField(fields, key, val) ==
  IF \E i \in 1..Len(fields) : fields[i].key = key
    THEN [i \in 1..Len(fields) |->
            IF fields[i].key = key THEN Field(key, val) ELSE fields[i]]
    ELSE Append(fields, Field(key, val))

RECURSIVE ReadValue(_, _), ReadItems(_, _, _), ReadMembers(_, _, _)
ReadValue(t, from) ==
  LET i == SkipSpace(t, from)
      c == At(t, i)
  IN CASE c = "{" ->
            IF At(t, SkipSpace(t, i + 1)) = "}"
              THEN Read(VObject(<<>>), SkipSpace(t, i + 1) + 1)
              ELSE ReadMembers(t, SkipSpace(t, i + 1), <<>>)
       [] c = "[" ->
            IF At(t, SkipSpace(t, i + 1)) = "]"
              THEN Read(VArray(<<>>), SkipSpace(t, i + 1) + 1)
              ELSE ReadItems(t, i + 1, <<>>)
       [] c = "\"" ->
            LET s == ReadString(t, i + 1)
            IN IF s.ok THEN Read(VString(s.str), s.next) ELSE Unreadable
       [] c = "n" ->
            IF i + 3 <= Len(t) /\ SubSeq(t, i, i + 3) = "null"
              THEN Read(VNull, i + 4) ELSE Unreadable
       [] c = "t" ->
            IF i + 3 <= Len(t) /\ SubSeq(t, i, i + 3) = "true"
              THEN Read(VTrue, i + 4) ELSE Unreadable
       [] c = "f" ->
            IF i + 4 <= Len(t) /\ SubSeq(t, i, i + 4) = "false"
              THEN Read(VFalse, i + 5) ELSE Unreadable
       [] c = "-" \/ (c # "" /\ IsDigit(c)) -> ReadNumber(t, i)
       [] OTHER -> Unreadable
ReadItems(t, i, items) ==
  LET v == ReadValue(t, i)
      j == SkipSpace(t, v.next)
  IN IF ~v.ok THEN Unreadable
     ELSE IF At(t, j) = "," THEN ReadItems(t, j + 1, Append(items, v.val))
     ELSE IF At(t, j) = "]" THEN Read(VArray(Append(items, v.val)), j + 1)
     ELSE Unreadable
ReadMembers(t, i, fields) ==
  LET k == IF At(t, i) = "\"" THEN ReadString(t, i + 1) ELSE Unreadable
      colon == SkipSpace(t, k.next)
      v == IF k.ok /\ At(t, colon) = ":"
             THEN ReadValue(t, colon + 1) ELSE Unreadable
      j == SkipSpace(t, v.next)
  IN IF ~v.ok THEN Unreadable
     ELSE IF At(t, j) = ","
       THEN ReadMembers(t, SkipSpace(t, j + 1), PutField(fields, k.str, v.val))
     ELSE IF At(t, j) = "}"
       THEN Read(VObject(PutField(fields, k.str, v.val)), j + 1)
     ELSE Unreadable

\* JSON.parse(text): the value, or a SyntaxError
ParseText(text) ==
  LET r == ReadValue(text, 1)
  IN IF r.ok /\ SkipSpace(text, r.next) = Len(text) + 1
       THEN [threw |-> FALSE, value |-> r.val]
       ELSE [threw |-> TRUE, value |-> VUndefined]

(***************************************************************************)
(* JSON texts of the model: entries of a batch as the orchestrator writes   *)
(* them, and the bodies built from them.                                   *)
(***************************************************************************)
RECURSIVE SeqsUpTo(_, _)
SeqsUpTo(S, n) ==
  IF n = 0 THEN {<<>>}
  ELSE LET shorter == SeqsUpTo(S, n - 1)
       IN shorter \cup {Append(s, x) : s \in shorter, x \in S}

\* entries as the orchestrator writes them (lowercase and camelCase names)
LowerEntry ==
  VObject(<<Field("sensorid", VString("s1")),
            Field("temperatureC", VString("21.11")),
            Field("rawhumidity", VString("48")),
            Field("timestamp", VString("2025-02-10T12:00:00Z")),
            Field("objectkey", VString("key1"))>>)
CamelEntry ==
  VObject(<<Field("sensorId", VString("s3")),
            Field("temperatureC", VString("19.5")),
            Field("rawHumidity", VString("51")),
            Field("timestamp", VString("2025-02-10T12:05:00Z")),
            Field("objectKey", VString("key3"))>>)
AllLowerEntry ==
  VObject(<<Field("sensorid", VString("s4")),
            Field("temperaturec", VString("18")),
            Field("rawhumidity", VString("50")),
            Field("timestamp", VString("2025-02-10T12:10:00Z")),
            Field("objectkey", VString("key4"))>>)
\* an entry without humidity, timestamp and object key
ShortEntry ==
  VObject(<<Field("sensorid", VString("s2")),
            Field("temperatureC", VString("22.22"))>>)
\* numeric readings that are 0
ZeroEntry ==
  VObject(<<Field("sensorId", VString("s5")),
            Field("temperatureC", VNumber(0)),
            Field("rawHumidity", VNumber(0)),
            Field("timestamp", VString("2025-02-10T12:15:00Z")),
            Field("objectKey", VString("key5"))>>)
\* a humidity that is null
NullHumidityEntry ==
  VObject(<<Field("sensorId", VString("s6")),
            Field("temperatureC", VString("20")),
            Field("rawHumidity", VNull),
            Field("timestamp", VString("2025-02-10T12:20:00Z")),
            Field("objectKey", VString("key6"))>>)

SinkArrays ==
  { VArray(<<>>),
    VArray(<<LowerEntry>>),
    VArray(<<CamelEntry, ShortEntry, AllLowerEntry>>),
    VArray(<<ZeroEntry, NullHumidityEntry>>),
    VArray(<<LowerEntry, VNull, CamelEntry>>),
    VArray(<<VNumber(5), VString("x")>>) }
SinkScalars == {LowerEntry, VNull, VNumber(5)}
\* request bodies: JSON texts, and one text that is not JSON
SinkBodies ==
  {Stringify(v) : v \in SinkArrays \cup SinkScalars} \cup {"not json"}
\* bodies on the queue: rows as the orchestrator writes them, a row that
\* lacks fields, the JSON literal null, and a text that is not JSON
DeliveryBodies ==
  { Stringify(LowerEntry), Stringify(CamelEntry), Stringify(ShortEntry),
    "null", "not json" }

\* sensor readings as a client posts them to the ingest function: two with
\* the same timestamp and one of a later time of the same day
Reading(id, temperature, humidity, timestamp) ==
  VObject(<<Field("sensorId", VString(id)),
            Field("rawTemperature", VNumber(temperature)),
            Field("rawHumidity", VNumber(humidity)),
            Field("timestamp", VString(timestamp))>>)
ReadingA == Reading("S1", 77, 40, "2025-02-10T12:00:00Z")
ReadingB == Reading("S2", 50, 55, "2025-02-10T12:00:00Z")
ReadingC == Reading("S3", 32, 60, "2025-02-10T18:30:00Z")
Readings == {ReadingA, ReadingB, ReadingC}
\* request payloads of one or two readings
ReadingPayloads ==
  { VArray(<<ReadingA, ReadingB>>), VArray(<<ReadingB, ReadingA>>),
    VArray(<<ReadingA, ReadingC>>), VArray(<<ReadingC>>) }
\* the key of the first object written for a reading of that day
ReadingKey ==
  "raw/year=2025/month=02/day=10/00000000-0000-4000-8000-000000000001.json"
\* athena-setup.md lines 14-15: rawtemperature and rawhumidity are DOUBLE
\* columns; the engine prints a whole double with one decimal, 40 as "40.0"
DoubleText(n) == ToString(n) \o ".0"
\* part_007 line 36: (rawtemperature - 32) * 5.0/9.0, a double (the
\* readings have whole results)
Celsius(fahrenheit) == DoubleText(((fahrenheit - 32) * 5) \div 9)
\* part_007 lines 109-115: the entry enqueued for a reading stored under key
ReadingEntry(r, key) ==
  VObject(<<Field("sensorid", GetField(r, "sensorId")),
            Field("temperatureC",
                  VString(Celsius(GetField(r, "rawTemperature").num))),
            Field("rawhumidity",
                  VString(DoubleText(GetField(r, "rawHumidity").num))),
            Field("timestamp", GetField(r, "timestamp")),
            Field("objectkey", VString(key))>>)
ReadingEntries == {ReadingEntry(r, ReadingKey) : r \in Readings}

\* every text that a component of the model hands to JSON.parse
ParsedTexts ==
  Bodies \cup SinkBodies \cup DeliveryBodies \cup {""}
    \cup {Stringify(VArray(vs)) :
            vs \in SeqsUpTo({LowerEntry, CamelEntry, ShortEntry}, MaxQueue)}
    \cup {Stringify(VArray(vs)) : vs \in SeqsUpTo(ReadingEntries, 2)}
    \cup {Stringify(e) : e \in ReadingEntries}
\* JSON.parse of each of them, computed once
ParsedOnce == [t \in ParsedTexts |-> ParseText(t)]
\* JSON.parse(text) for a text of the model
ParseJSON(text) == ParsedOnce[text]

\* the values the handler's map callback yields: null, and a row object
JSNull == VNull
JSObject(id) == VObject(<<Field("sensorid", VString(id))>>)

\* JSON.parse(record.body): the decoded value, or a SyntaxError
JSONparse(body) ==
  LET r == ParseJSON(body)
  IN [threw |-> r.threw, value |-> IF r.threw THEN JSNull ELSE r.value]

\* JSON.stringify of one decoded value: the canonical text without white space
JSONstringifyValue(v) == Stringify(v)

RECURSIVE JoinValues(_)
JoinValues(vs) ==
  IF Len(vs) = 0 THEN ""
  ELSE IF Len(vs) = 1 THEN JSONstringifyValue(vs[1])
  ELSE JSONstringifyValue(vs[1]) \o "," \o JoinValues(Tail(vs))

\* JSON.stringify(messages) of an array
JSONstringify(vs) == "[" \o JoinValues(vs) \o "]"

\* response.ok
ResponseOk(status) == status >= 200 /\ status <= 299

(***************************************************************************)
(* handler, lines 84-93: map each record to its decoded body or null, then *)
(* filter out the nulls.                                                   *)
(***************************************************************************)
MapRecord(body) ==
  IF JSONparse(body).threw THEN JSNull ELSE JSONparse(body).value

FilterMsg(msg) == msg # JSNull

ParseRecords(records) ==
  SelectSeq([i \in 1..Len(records) |-> MapRecord(records[i])], FilterMsg)

\* line 101
NeverEmpty(msgs) == FALSE
NoValidMessages(msgs) == Len(msgs) = 0

\* line 31
FirstOnly(msgs) == JSONstringify(SubSeq(msgs, 1, 1))
RequestBody(msgs) == JSONstringify(msgs)

\* lines 16 and 56
LoopCondition(a) == a < MAX_RETRIES
RetryCondition(a) == a < MAX_RETRIES

\* line 58
BackoffDelay(a) == a * 1000

\* Error objects: the message and the attempt whose try block created it
HttpError(status, text, n) ==
  [message |-> "HTTP " \o ToString(status) \o ": " \o text, attemptNo |-> n]
FetchError(n) == [message |-> "fetch failed", attemptNo |-> n]
BodyError(n) == [message |-> "terminated", attemptNo |-> n]
NoError == [message |-> "", attemptNo |-> 0]

\* lines 111-117: the handler's catch re-raises what it caught
WrapError(error) == [message |-> "dispatch failed", attemptNo |-> 0]
HandlerCatch(error) == error

\* lines 109-117: how the handler ends once postBatch has ended
SwallowError(postBatchThrew) == "returned"
HandlerResult(postBatchThrew) ==
  IF postBatchThrew THEN "raised" ELSE "returned"

VARIABLES
  queue,        \* bodies of the messages visible on ProcessedDataQueue
  receives,     \* number of deliveries made by the queue so far
  redelivered,  \* bodies put back on the queue after the last invocation
  event,        \* event.Records of the invocation: the bodies, in order
  pc,           \* position of the invocation
  messages,     \* handler's messages array
  attempt,      \* postBatch's attempt counter
  response,     \* the Response the current attempt received
  posts,        \* bodies of the POSTs issued by this invocation, in order
  outcomes,     \* what the sink did to each completed attempt
  errors,       \* the error caught by each failed attempt
  waits,        \* backoff timers started: after which POST, for how long
  thrown,       \* the error the handler raised to its caller
  result,       \* how the invocation ended: "none", "returned" or "raised"
  subsegments   \* X-Ray subsegments opened by the invocation

\* State of one invocation of the query orchestrator (runAthenaQuery).
VARIABLES
  oversion,     \* which version of runAthenaQuery.ts runs
  opc,          \* position of the orchestrator invocation
  ostatus,      \* the handler's status / queryStatus variable
  oexecId,      \* queryExecutionId
  orows,        \* rows returned by GetQueryResults
  odataRows,    \* dataRows
  orowIndex,    \* number of rows the for loop has finished
  ocalls,       \* collaborator calls and timers, in the order they started
  oresponse,    \* what the handler gave its caller
  osubsegments  \* X-Ray subsegments opened by the orchestrator

\* The query engine and the orchestrator's caller across invocations.
VARIABLES
  oruns,        \* invocations of the orchestrator started so far
  otable        \* the result set the engine holds for the query, once fetched

\* State of the ingest function (ingestData) and of the raw-data bucket.
VARIABLES
  ipc,          \* position of the ingest invocation
  ibody,        \* event.body of the invocation
  irecords,     \* records
  inow,         \* what new Date() returned, when the handler called it
  iyear,        \* year
  imonth,       \* month
  iday,         \* day
  ibatchId,     \* batchId
  iobjectKey,   \* objectKey
  iputs,        \* PutObject commands sent by the invocation
  iwrites,      \* objects the bucket has stored, with the request of each
  iuuids,       \* number of identifiers uuidv4() has produced
  iresponse     \* what the handler gave its caller

\* State of the sink webhook (src/valTownWebhook.ts) and of its table.
VARIABLES
  spc,          \* position of the webhook invocation
  sreq,         \* the request: its method and its body
  spayload,     \* payload
  sindex,       \* position in payload of the entry being handled
  sinserted,    \* insertedCount
  stable,       \* rows of the sensor_data table, in insertion order
  sanswers      \* the requests answered so far, each with its answer

\* A second invocation of the dispatcher running beside the first.
VARIABLES
  current,      \* which of the two invocations the dispatcher variables show
  other         \* the variables of the invocation that is not shown

sinkVars == <<spc, sreq, spayload, sindex, sinserted, stable, sanswers>>
concVars == <<current, other>>

ingVars == <<ipc, ibody, irecords, inow, iyear, imonth, iday, ibatchId,
             iobjectKey, iputs, iwrites, iuuids, iresponse>>

orchVars == <<oversion, opc, ostatus, oexecId, orows, odataRows, orowIndex,
              ocalls, oresponse, osubsegments, oruns, otable>>

dispVars == <<queue, receives, redelivered, event, pc, messages, attempt,
              response, posts, outcomes, errors, waits, thrown, result,
              subsegments>>

vars == <<queue, receives, redelivered, event, pc, messages, attempt, response,
          posts, outcomes, errors, waits, thrown, result, subsegments,
          oversion, opc, ostatus, oexecId, orows, odataRows, orowIndex,
          ocalls, oresponse, osubsegments, oruns, otable,
          ipc, ibody, irecords, inow, iyear, imonth, iday, ibatchId,
          iobjectKey, iputs, iwrites, iuuids, iresponse,
          spc, sreq, spayload, sindex, sinserted, stable, sanswers,
          current, other>>

\* JavaScript undefined, as a template literal or a log prints it
Undefined == "undefined"

\* the handler has not answered its caller
NoPayload == [kind |-> "none", statusCode |-> 0, error |-> "", message |-> "",
              processedRows |-> 0]

\* no orchestrator invocation has started
\* the engine has not produced a result set for the query yet
NoTable == [known |-> FALSE, rows |-> <<>>]

OrchIdle ==
  /\ opc = "idle"
  /\ ostatus = Undefined
  /\ oexecId = Undefined
  /\ orows = <<>>
  /\ odataRows = <<>>
  /\ orowIndex = 0
  /\ ocalls = <<>>
  /\ oresponse = NoPayload
  /\ osubsegments = <<>>
  /\ oruns = 0
  /\ otable = NoTable

\* the ingest handler has not answered its caller
NoIngestResponse ==
  [kind |-> "none", statusCode |-> 0, message |-> "", objectKey |-> "",
   error |-> ""]

\* event.body of a request without a body
MissingBody == [present |-> FALSE, text |-> ""]

\* no ingest invocation has started and the bucket is empty
IngestIdle ==
  /\ ipc = "idle"
  /\ ibody = MissingBody
  /\ irecords = <<>>
  /\ inow = 0
  /\ iyear = ""
  /\ imonth = ""
  /\ iday = ""
  /\ ibatchId = ""
  /\ iobjectKey = ""
  /\ iputs = <<>>
  /\ iwrites = <<>>
  /\ iuuids = 0
  /\ iresponse = NoIngestResponse

\* the webhook has received no request and its table is empty
NoRequest == [method |-> "", body |-> ""]
SinkIdle ==
  /\ spc = "idle"
  /\ sreq = NoRequest
  /\ spayload = VUndefined
  /\ sindex = 0
  /\ sinserted = 0
  /\ stable = <<>>
  /\ sanswers = <<>>

\* the variables of a dispatcher invocation that has not started
NoInvocation ==
  [event |-> <<>>, pc |-> "idle", messages |-> <<>>, attempt |-> 0,
   response |-> [status |-> 0], posts |-> <<>>, outcomes |-> <<>>,
   errors |-> <<>>, waits |-> <<>>,
   thrown |-> [message |-> "", attemptNo |-> 0], result |-> "none",
   subsegments |-> <<>>]
\* one dispatcher invocation at a time
AloneIdle ==
  /\ current = 1
  /\ other = NoInvocation

NoResponse == [status |-> 0]

Init ==
  /\ queue \in SeqsUpTo(Bodies, MaxQueue)
  /\ receives = 0
  /\ redelivered = <<>>
  /\ event = <<>>
  /\ pc = "idle"
  /\ messages = <<>>
  /\ attempt = 0
  /\ response = NoResponse
  /\ posts = <<>>
  /\ outcomes = <<>>
  /\ errors = <<>>
  /\ waits = <<>>
  /\ thrown = NoError
  /\ result = "none"
  /\ subsegments = <<>>
  /\ oversion = "part_007"
  /\ OrchIdle
  /\ IngestIdle
  /\ SinkIdle
  /\ AloneIdle

\* what the sink did to one attempt
Rejected == [kind |-> "reject", status |-> 0, readable |-> FALSE, text |-> ""]
Answered(status, readable, text) ==
  [kind |-> "response", status |-> status, readable |-> readable, text |-> text]

\* segment.addNewSubsegment(name) and subsegment.close()
OpenSubsegment(subs, name) == Append(subs, [name |-> name, closes |-> 0])
CloseSubsegment(subs) == [subs EXCEPT ![Len(subs)].closes = @ + 1]

Min(a, b) == IF a < b THEN a ELSE b

(***************************************************************************)
(* The queue invokes the handler with the visible messages, at most        *)
(* BatchSize of them; the messages of the batch are in flight.             *)
(***************************************************************************)
Deliver ==
  /\ pc = "idle"
  /\ receives < MaxReceive
  /\ LET n == Min(Len(queue), BatchSize)
     IN /\ event' = SubSeq(queue, 1, n)
        /\ queue' = SubSeq(queue, n + 1, Len(queue))
  /\ receives' = receives + 1
  /\ redelivered' = <<>>
  /\ pc' = "invoked"
  /\ messages' = <<>>
  /\ attempt' = 0
  /\ response' = NoResponse
  /\ posts' = <<>>
  /\ outcomes' = <<>>
  /\ errors' = <<>>
  /\ waits' = <<>>
  /\ thrown' = NoError
  /\ result' = "none"
  /\ subsegments' = <<>>
  /\ UNCHANGED <<orchVars, ingVars, sinkVars, concVars>>

(***************************************************************************)
(* handler, lines 73-109: decode the records, then either return at once   *)
(* or call postBatch, which starts with attempt = 0.                       *)
(***************************************************************************)
HandlerStart ==
  /\ pc = "invoked"
  /\ messages' = ParseRecords(event)
  /\ subsegments' = CloseSubsegment(OpenSubsegment(subsegments, "process-batch"))
  /\ attempt' = 0
  /\ IF NoValidMessages(messages')
       THEN /\ result' = HandlerResult(FALSE)
            /\ pc' = "done"
       ELSE /\ result' = result
            /\ pc' = "loop"
  /\ UNCHANGED <<queue, receives, redelivered, event, response, posts,
                 outcomes, errors, waits, thrown>>
  /\ UNCHANGED <<orchVars, ingVars, sinkVars, concVars>>

(***************************************************************************)
(* postBatch, lines 16-32: the loop test and the fetch() call.             *)
(***************************************************************************)
LoopIteration ==
  /\ pc = "loop"
  /\ IF LoopCondition(attempt)
       THEN /\ subsegments' = OpenSubsegment(subsegments, "external-api-call")
            /\ posts' = Append(posts, RequestBody(messages))
            /\ pc' = "fetch"
            /\ result' = result
       ELSE /\ result' = HandlerResult(FALSE)
            /\ pc' = "done"
            /\ UNCHANGED <<subsegments, posts>>
  /\ UNCHANGED <<queue, receives, redelivered, event, messages, attempt,
                 response, outcomes, errors, waits, thrown>>
  /\ UNCHANGED <<orchVars, ingVars, sinkVars, concVars>>

(***************************************************************************)
(* postBatch, lines 46-65: the catch block of one attempt.                 *)
(***************************************************************************)
CatchBlock(error, outcome) ==
  /\ attempt' = attempt + 1
  /\ errors' = Append(errors, error)
  /\ outcomes' = Append(outcomes, outcome)
  /\ subsegments' = CloseSubsegment(subsegments)
  /\ response' = NoResponse
  /\ IF RetryCondition(attempt')
       THEN /\ waits' = Append(waits, [afterPost |-> Len(posts),
                                       ms |-> BackoffDelay(attempt')])
            /\ pc' = "sleep"
            /\ UNCHANGED <<thrown, result>>
       ELSE /\ thrown' = HandlerCatch(error)
            /\ result' = HandlerResult(TRUE)
            /\ pc' = "done"
            /\ waits' = waits
  /\ UNCHANGED <<queue, receives, redelivered, event, messages, posts>>
  /\ UNCHANGED <<orchVars, ingVars, sinkVars, concVars>>

\* line 28: fetch() rejects (transport error)
FetchRejects ==
  /\ pc = "fetch"
  /\ CatchBlock(FetchError(attempt + 1), Rejected)

\* line 28: fetch() resolves with a Response of the given status
FetchGets(status) ==
  /\ pc = "fetch"
  /\ response' = [status |-> status]
  /\ pc' = "text"
  /\ UNCHANGED <<queue, receives, redelivered, event, messages, attempt, posts,
                 outcomes, errors, waits, thrown, result, subsegments>>

FetchResolves ==
  /\ \E status \in Statuses : FetchGets(status)
  /\ UNCHANGED <<orchVars, ingVars, sinkVars, concVars>>

\* lines 34-45: response.text() resolves, on either side of the ok test
TextGets(text) ==
  /\ pc = "text"
  /\ IF ~ResponseOk(response.status)
       THEN CatchBlock(HttpError(response.status, text, attempt + 1),
                       Answered(response.status, TRUE, text))
       ELSE /\ outcomes' = Append(outcomes, Answered(response.status, TRUE, text))
            /\ subsegments' = CloseSubsegment(subsegments)
            /\ response' = NoResponse
            /\ result' = HandlerResult(FALSE)
            /\ pc' = "done"
            /\ UNCHANGED <<queue, receives, redelivered, event, messages,
                           attempt, posts, errors, waits, thrown>>
            /\ UNCHANGED <<orchVars, ingVars, sinkVars, concVars>>

TextResolves == \E text \in Texts : TextGets(text)

\* lines 35 and 40: response.text() rejects, on either side of the ok test
TextRejects ==
  /\ pc = "text"
  /\ CatchBlock(BodyError(attempt + 1), Answered(response.status, FALSE, ""))

\* line 60: the backoff timer fires
TimerFires ==
  /\ pc = "sleep"
  /\ pc' = "loop"
  /\ UNCHANGED <<queue, receives, redelivered, event, messages, attempt,
                 response, posts, outcomes, errors, waits, thrown, result,
                 subsegments>>
  /\ UNCHANGED <<orchVars, ingVars, sinkVars, concVars>>

(***************************************************************************)
(* The queue after the invocation: a batch whose handler returned is       *)
(* deleted, a batch whose handler raised becomes visible again, whole.     *)
(***************************************************************************)
Ack ==
  /\ pc = "done"
  /\ result = "returned"
  /\ redelivered' = <<>>
  /\ pc' = "idle"
  /\ UNCHANGED <<queue, receives, event, messages, attempt, response, posts,
                 outcomes, errors, waits, thrown, result, subsegments>>
  /\ UNCHANGED <<orchVars, ingVars, sinkVars, concVars>>

Nack ==
  /\ pc = "done"
  /\ result = "raised"
  /\ queue' = queue \o event
  /\ redelivered' = event
  /\ pc' = "idle"
  /\ UNCHANGED <<receives, event, messages, attempt, response, posts,
                 outcomes, errors, waits, thrown, result, subsegments>>
  /\ UNCHANGED <<orchVars, ingVars, sinkVars, concVars>>

Next ==
  \/ Deliver
  \/ HandlerStart
  \/ LoopIteration
  \/ FetchRejects
  \/ FetchResolves
  \/ TextResolves
  \/ TextRejects
  \/ TimerFires
  \/ Ack
  \/ Nack

Spec == Init /\ [][Next]_vars

(***************************************************************************)
(* The query orchestrator, runAthenaQuery.ts.  The repository holds two    *)
(* behaviours of it: "part_006" (the version its unit test exercises) and  *)
(* "part_007" (the later version, with X-Ray; part_008 is the same code    *)
(* without the X-Ray calls).                                               *)
(***************************************************************************)
\* largest number of polls the engine answers with RUNNING or QUEUED before
\* it reports another state is MaxPolls - 1
MaxPolls == 3
\* largest number of rows in a fetched result set, the header row included
MaxRows == 3
\* how many times the orchestrator is invoked in one behaviour
MaxRuns == 2

\* line 81: the fixed delay after a poll
NoDelay == 2000 - 2000
PollDelay == 2000

Versions == {"part_006", "part_007"}

\* StartQueryExecution: the QueryExecutionId of the response
ExecIds == {"query123", Undefined}
\* GetQueryExecution: QueryExecution.Status.State
PollStates == {"RUNNING", "QUEUED", "SUCCEEDED", "FAILED", "CANCELLED",
               "SUBMITTED", Undefined}
\* GetQueryExecution: QueryExecution.Status.StateChangeReason
Reasons == {"SYNTAX_ERROR: line 1:8", Undefined}
\* message of the error an AWS SDK call rejects with
SdkErrorMessage == "ServiceUnavailable"
\* message of the TypeError raised by cols[0] when row.Data is undefined
TypeErrorMessage == "Cannot read properties of undefined (reading '0')"

\* GetQueryResults rows: Data is a list of VarCharValue texts, or is missing
HeaderRow ==
  [hasData |-> TRUE,
   Data |-> <<"sensorid", "temperatureC", "rawhumidity", "timestamp", "objectkey">>]
FullRow ==
  [hasData |-> TRUE,
   Data |-> <<"s1", "21.11", "48", "2025-02-10T12:00:00Z", "key1">>]
ShortRow == [hasData |-> TRUE, Data |-> <<"s2", "22.22">>]
NoDataRow == [hasData |-> FALSE, Data |-> <<>>]
\* a row whose Data is an empty array
EmptyRow == [hasData |-> TRUE, Data |-> <<>>]
RowValues == {HeaderRow, FullRow, ShortRow, NoDataRow, EmptyRow}

\* part_006 line 57 (State || "FAILED"), part_007 line 73 (State!)
PolledStatus(version, state) ==
  IF version = "part_006" /\ state = Undefined THEN "FAILED" ELSE state

\* part_007 line 68: let status = "RUNNING"
InitialUnset == Undefined
InitialStatus == "RUNNING"

\* part_007 lines 69 and 74
OnlyRunning(status) == status = "RUNNING"
PollAgain(status) == status = "RUNNING" \/ status = "QUEUED"
OnlyFailed(status) == status = "FAILED"
QueryFailed(status) == status = "FAILED" \/ status = "CANCELLED"

\* part_006 line 59, part_007 line 79
StatusOnlyMessage(version, status, reason) ==
  "Athena query failed with status " \o status
ReasonOnlyMessage(version, status, reason) ==
  "Athena query failed: " \o reason
FailureMessage(version, status, reason) ==
  IF version = "part_006"
    THEN "Athena query failed with status " \o status
    ELSE "Athena query failed: " \o reason

\* part_007 line 95: rows.slice(1)
SkipIfHeader(rows) ==
  IF Len(rows) > 0 /\ rows[1] = HeaderRow THEN Tail(rows) ELSE rows
Slice1(rows) == SubSeq(rows, 2, Len(rows))

\* part_007 lines 110-114: cols[i]?.VarCharValue
Column(cols, i) == IF i <= Len(cols) THEN cols[i] ELSE Undefined

\* part_006 lines 73-79, part_007 lines 109-115
RowRecord(cols) == [i \in 1..5 |-> Column(cols, i)]

KeyNames(version) ==
  IF version = "part_006"
    THEN <<"sensorId", "temperatureC", "rawHumidity", "timestamp", "objectKey">>
    ELSE <<"sensorid", "temperatureC", "rawhumidity", "timestamp", "objectkey">>

\* JSON.stringify(record): a key whose value is undefined is left out
RECURSIVE JoinFields(_, _, _)
JoinFields(keys, record, i) ==
  IF i > Len(keys) THEN ""
  ELSE LET rest == JoinFields(keys, record, i + 1)
       IN IF record[i] = Undefined THEN rest
          ELSE "\"" \o keys[i] \o "\":\"" \o record[i] \o "\""
               \o (IF rest = "" THEN "" ELSE "," \o rest)
StringifyRecord(version, record) ==
  "{" \o JoinFields(KeyNames(version), record, 1) \o "}"

\* part_006 line 72 (row.Data || []), part_007 line 108 (row.Data!)
RowRaises(version, row) == version = "part_007" /\ ~row.hasData
MessageBody(version, row) == StringifyRecord(version, RowRecord(row.Data))

\* one collaborator call or timer, pending until it settles
Call(op, arg, ms) ==
  [op |-> op, arg |-> arg, outcome |-> "pending", value |-> "", reason |-> "",
   ms |-> ms]
Settle(calls, outcome, value, reason) ==
  [calls EXCEPT ![Len(calls)] =
     [@ EXCEPT !.outcome = outcome, !.value = value, !.reason = reason]]
CountOf(calls, op) == Cardinality({i \in 1..Len(calls) : calls[i].op = op})

\* X-Ray calls exist in part_007 only
XOpen(version, subs, name) ==
  IF version = "part_007" THEN OpenSubsegment(subs, name) ELSE subs
XClose(version, subs) ==
  IF version = "part_007" THEN CloseSubsegment(subs) ELSE subs

\* part_007 lines 127-134 and 135-141: the two payloads the handler returns
CountsHeader(version, id, n) ==
  [kind |-> "returned", statusCode |-> 200, error |-> "",
   message |-> "Query executed and messages sent to SQS",
   processedRows |-> n + 1]
ForgotReturn(version, id, n) ==
  [kind |-> "returned", statusCode |-> 0, error |-> "", message |-> "",
   processedRows |-> 0]
SuccessPayload(version, id, n) ==
  [kind |-> "returned", statusCode |-> 200, error |-> "",
   message |-> IF version = "part_006"
                 THEN "Athena query executed and matching records sent to SQS"
                 ELSE "Query executed and messages sent to SQS",
   processedRows |-> n]
Rethrow(message) ==
  [kind |-> "raised", statusCode |-> 0, error |-> message, message |-> "",
   processedRows |-> 0]
CatchReportsProgress(message) ==
  [kind |-> "returned", statusCode |-> 500, error |-> message, message |-> "",
   processedRows |-> 1]
CatchPayload(message) ==
  [kind |-> "returned", statusCode |-> 500, error |-> message, message |-> "",
   processedRows |-> 0]

dispOther == <<receives, redelivered, event, pc, messages, attempt, response,
               posts, outcomes, errors, waits, thrown, result, subsegments>>

InitOrch ==
  /\ queue = <<>>
  /\ receives = 0
  /\ redelivered = <<>>
  /\ event = <<>>
  /\ pc = "idle"
  /\ messages = <<>>
  /\ attempt = 0
  /\ response = NoResponse
  /\ posts = <<>>
  /\ outcomes = <<>>
  /\ errors = <<>>
  /\ waits = <<>>
  /\ thrown = NoError
  /\ result = "none"
  /\ subsegments = <<>>
  /\ oversion \in Versions
  /\ OrchIdle
  /\ IngestIdle
  /\ SinkIdle
  /\ AloneIdle

\* part_007 lines 135-141: the catch block ends the invocation
OrchCatch(message, calls, subs) ==
  /\ oresponse' = CatchPayload(message)
  /\ ocalls' = calls
  /\ osubsegments' = subs
  /\ opc' = "done"

\* part_007 lines 24-60: the handler up to the StartQueryExecution call
StartInvocation ==
  /\ ocalls' = <<Call("Submit", "", 0)>>
  /\ osubsegments' =
       XClose(oversion, XOpen(oversion, <<>>, "prepare-athena-query"))
  /\ opc' = "submit"
  /\ ostatus' = Undefined
  /\ oexecId' = Undefined
  /\ orows' = <<>>
  /\ odataRows' = <<>>
  /\ orowIndex' = 0
  /\ oresponse' = NoPayload
  /\ oruns' = oruns + 1
  /\ UNCHANGED <<oversion, queue, otable>>
  /\ UNCHANGED <<dispOther, ingVars, sinkVars, concVars>>

OInvoke ==
  /\ opc = "idle"
  /\ StartInvocation

\* the caller invokes the function again after an invocation has ended
OReinvoke ==
  /\ opc = "done"
  /\ oruns < MaxRuns
  /\ StartInvocation

\* part_007 lines 69-93: the loop test, followed by the next
\* GetQueryExecution call or, when the loop ends, by GetQueryResults
LoopTest(status, id, calls, subs) ==
  IF PollAgain(status)
    THEN /\ ocalls' = Append(calls, Call("Poll", id, 0))
         /\ opc' = "poll"
         /\ osubsegments' = subs
    ELSE /\ ocalls' = Append(calls, Call("Fetch", id, 0))
         /\ opc' = "fetch"
         /\ osubsegments' =
              XOpen(oversion, XClose(oversion, subs), "process-athena-results")

\* part_007 lines 55-72: StartQueryExecution resolves; the loop starts with
\* status = "RUNNING" and issues the first GetQueryExecution
OSubmitResolves ==
  /\ opc = "submit"
  /\ \E id \in ExecIds :
       /\ oexecId' = id
       /\ IF oversion = "part_006" /\ id = Undefined
            THEN /\ OrchCatch("No QueryExecutionId returned.",
                              Settle(ocalls, "ok", id, ""), osubsegments)
                 /\ ostatus' = ostatus
            ELSE /\ ostatus' = InitialStatus
                 /\ LoopTest(InitialStatus, id, Settle(ocalls, "ok", id, ""),
                             XOpen(oversion, osubsegments, "poll-athena-query"))
                 /\ oresponse' = oresponse
  /\ UNCHANGED <<oversion, orows, odataRows, orowIndex, queue>>
  /\ UNCHANGED <<dispOther, ingVars, sinkVars, concVars, oruns, otable>>

OSubmitRejects ==
  /\ opc = "submit"
  /\ OrchCatch(SdkErrorMessage, Settle(ocalls, "rejected", "", ""), osubsegments)
  /\ UNCHANGED <<oversion, ostatus, oexecId, orows, odataRows, orowIndex, queue>>
  /\ UNCHANGED <<dispOther, ingVars, sinkVars, concVars, oruns, otable>>

\* part_007 lines 70-81: GetQueryExecution resolves
PollGets(state, reason) ==
  /\ opc = "poll"
  /\ CountOf(ocalls, "Poll") >= MaxPolls => ~PollAgain(state)
  /\ ostatus' = PolledStatus(oversion, state)
  /\ IF QueryFailed(ostatus')
       THEN OrchCatch(FailureMessage(oversion, ostatus', reason),
                      Settle(ocalls, "ok", state, reason),
                      XClose(oversion, osubsegments))
       ELSE /\ ocalls' = Append(Settle(ocalls, "ok", state, reason),
                                Call("Sleep", "", PollDelay))
            /\ opc' = "sleep"
            /\ UNCHANGED <<oresponse, osubsegments>>
  /\ UNCHANGED <<oversion, oexecId, orows, odataRows, orowIndex, queue>>
  /\ UNCHANGED <<dispOther, ingVars, sinkVars, concVars, oruns, otable>>

OPollResolves ==
  \E state \in PollStates, reason \in Reasons :
    /\ (reason # Undefined) => QueryFailed(state)
    /\ PollGets(state, reason)

OPollRejects ==
  /\ opc = "poll"
  /\ OrchCatch(SdkErrorMessage, Settle(ocalls, "rejected", "", ""), osubsegments)
  /\ UNCHANGED <<oversion, ostatus, oexecId, orows, odataRows, orowIndex, queue>>
  /\ UNCHANGED <<dispOther, ingVars, sinkVars, concVars, oruns, otable>>

\* part_007 lines 81-93: the delay ends; the loop test decides between the
\* next GetQueryExecution and GetQueryResults
OTimerFires ==
  /\ opc = "sleep"
  /\ LoopTest(ostatus, oexecId, Settle(ocalls, "ok", "", ""), osubsegments)
  /\ UNCHANGED <<oversion, ostatus, oexecId, orows, odataRows, orowIndex,
                 oresponse, queue>>
  /\ UNCHANGED <<dispOther, ingVars, sinkVars, concVars, oruns, otable>>

\* part_007 lines 107-134: the for loop from row index i (rows finished),
\* up to its next SendMessage call, a TypeError, or the return
ForLoopFrom(i, rows, calls, subs) ==
  /\ orowIndex' = i
  /\ IF i < Len(rows)
       THEN IF RowRaises(oversion, rows[i + 1])
              THEN OrchCatch(TypeErrorMessage, calls, subs)
              ELSE /\ ocalls' = Append(calls,
                        Call("Enqueue", MessageBody(oversion, rows[i + 1]), 0))
                   /\ opc' = "enqueue"
                   /\ osubsegments' = subs
                   /\ oresponse' = oresponse
       ELSE /\ oresponse' = SuccessPayload(oversion, oexecId, Len(rows))
            /\ ocalls' = calls
            /\ osubsegments' = XClose(oversion, subs)
            /\ opc' = "done"

\* what GetQueryResults can return: any result set the first time, and the
\* same one again when the same query is run again over the same data
ResultSets(table) ==
  IF table.known THEN {table.rows} ELSE SeqsUpTo(RowValues, MaxRows)

\* part_007 lines 93-104: GetQueryResults resolves (a missing ResultSet
\* counts as no rows)
OFetchResolves ==
  /\ opc = "fetch"
  /\ \E rows \in ResultSets(otable) :
       /\ orows' = rows
       /\ otable' = [known |-> TRUE, rows |-> rows]
       /\ odataRows' = Slice1(rows)
       /\ ForLoopFrom(0, odataRows', Settle(ocalls, "ok", "", ""),
                      XOpen(oversion, XClose(oversion, osubsegments),
                            "send-to-sqs"))
  /\ UNCHANGED <<oversion, ostatus, oexecId, queue>>
  /\ UNCHANGED <<dispOther, ingVars, sinkVars, concVars, oruns>>

OFetchRejects ==
  /\ opc = "fetch"
  /\ OrchCatch(SdkErrorMessage, Settle(ocalls, "rejected", "", ""), osubsegments)
  /\ UNCHANGED <<oversion, ostatus, oexecId, orows, odataRows, orowIndex, queue>>
  /\ UNCHANGED <<dispOther, ingVars, sinkVars, concVars, oruns, otable>>

\* part_007 lines 116-120: SendMessage resolves, the message is on the queue
OEnqueueResolves ==
  /\ opc = "enqueue"
  /\ queue' = Append(queue, ocalls[Len(ocalls)].arg)
  /\ ForLoopFrom(orowIndex + 1, odataRows, Settle(ocalls, "ok", "", ""),
                 osubsegments)
  /\ UNCHANGED <<oversion, ostatus, oexecId, orows, odataRows>>
  /\ UNCHANGED <<dispOther, ingVars, sinkVars, concVars, oruns, otable>>

OEnqueueRejects ==
  /\ opc = "enqueue"
  /\ OrchCatch(SdkErrorMessage, Settle(ocalls, "rejected", "", ""), osubsegments)
  /\ UNCHANGED <<oversion, ostatus, oexecId, orows, odataRows, orowIndex, queue>>
  /\ UNCHANGED <<dispOther, ingVars, sinkVars, concVars, oruns, otable>>

NextOrch ==
  \/ OInvoke
  \/ OSubmitResolves
  \/ OSubmitRejects
  \/ OPollResolves
  \/ OPollRejects
  \/ OTimerFires
  \/ OFetchResolves
  \/ OFetchRejects
  \/ OEnqueueResolves
  \/ OEnqueueRejects

SpecOrch == InitOrch /\ [][NextOrch]_vars

\* the orchestrator invoked again by its caller after an invocation ended
NextOrchRepeat ==
  \/ NextOrch
  \/ OReinvoke

SpecOrchRepeat == InitOrch /\ [][NextOrchRepeat]_vars

\* every pending collaborator call settles and every timer fires
SpecOrchFair == SpecOrch /\ WF_vars(NextOrch)

(***************************************************************************)
(* The ingest function (src/src/ingestData.ts): an API Gateway request     *)
(* carrying one record or an array of records is written to the raw-data   *)
(* bucket as one object of newline-delimited JSON under a date-partitioned *)
(* key.                                                                    *)
(***************************************************************************)
\* how many requests get as far as generating a batch identifier
MaxBatches == 2

\* ingestData.ts line 31: Array.isArray(payload) ? payload : [payload]
Records(payload) ==
  IF payload.type = "array" THEN payload.items ELSE <<payload>>

\* line 34: records[0]?.timestamp; threw is a TypeError of the access
UncheckedFirst(recs) ==
  IF Len(recs) = 0 \/ recs[1].type \in {"null", "undefined"}
    THEN [threw |-> TRUE, value |-> VUndefined]
    ELSE [threw |-> FALSE, value |-> GetField(recs[1], "timestamp")]
LastTimestamp(recs) ==
  [threw |-> FALSE,
   value |-> IF Len(recs) = 0 THEN VUndefined
             ELSE GetField(recs[Len(recs)], "timestamp")]
FirstTimestamp(recs) ==
  [threw |-> FALSE,
   value |-> IF Len(recs) = 0 THEN VUndefined
             ELSE GetField(recs[1], "timestamp")]

\* line 35: the condition tsString ? ... : ...
(***************************************************************************)
(* Date: a time value is a count of minutes since 1970-01-01T00:00Z (the   *)
(* seconds and milliseconds of a timestamp never change its calendar day)  *)
(* or NaN for an Invalid Date.  The day arithmetic is ECMAScript's.        *)
(***************************************************************************)
MinutesPerDay == 24 * 60
MsPerMinute == 60 * 1000
NaNTime == [valid |-> FALSE, minutes |-> 0]
TimeOf(m) == [valid |-> TRUE, minutes |-> m]

IsLeapYear(y) == (y % 4 = 0 /\ y % 100 # 0) \/ y % 400 = 0
DayFromYear(y) ==
  365 * (y - 1970) + ((y - 1969) \div 4) - ((y - 1901) \div 100)
    + ((y - 1601) \div 400)
\* days of the year before month m (1..12); m = 13 gives the year's length
DaysBeforeMonth(m, leap) ==
  <<0, 31, 59, 90, 120, 151, 181, 212, 243, 273, 304, 334, 365>>[m]
    + (IF leap /\ m > 2 THEN 1 ELSE 0)
MakeDay(y, m, d) == DayFromYear(y) + DaysBeforeMonth(m, IsLeapYear(y)) + d - 1

Day(t) == t \div MinutesPerDay
YearFromTime(t) ==
  LET d == Day(t)
      a == d \div 366
      b == d \div 365
  IN CHOOSE y \in (1970 + Min(a, b) - 1)..(1970 + (IF a > b THEN a ELSE b) + 1) :
       DayFromYear(y) <= d /\ d < DayFromYear(y + 1)
DayWithinYear(t) == Day(t) - DayFromYear(YearFromTime(t))
\* 0 for January, as getUTCMonth returns it
MonthFromTime(t) ==
  LET leap == IsLeapYear(YearFromTime(t))
      dw == DayWithinYear(t)
  IN CHOOSE m \in 0..11 :
       DaysBeforeMonth(m + 1, leap) <= dw /\ dw < DaysBeforeMonth(m + 2, leap)
DateFromTime(t) ==
  DayWithinYear(t)
    - DaysBeforeMonth(MonthFromTime(t) + 1, IsLeapYear(YearFromTime(t))) + 1

\* the date part YYYY-MM-DD at the start of s
DatePartOk(s) ==
  /\ Len(s) >= 10
  /\ AllDigits(SubSeq(s, 1, 4)) /\ CharAt(s, 5) = "-"
  /\ AllDigits(SubSeq(s, 6, 7)) /\ CharAt(s, 8) = "-"
  /\ AllDigits(SubSeq(s, 9, 10))
  /\ ToNumber(SubSeq(s, 6, 7)) \in 1..12
  /\ ToNumber(SubSeq(s, 9, 10)) \in 1..31
\* the time part THH:mm:ss at positions 11..19
TimePartOk(s) ==
  /\ Len(s) >= 19
  /\ CharAt(s, 11) = "T"
  /\ AllDigits(SubSeq(s, 12, 13)) /\ CharAt(s, 14) = ":"
  /\ AllDigits(SubSeq(s, 15, 16)) /\ CharAt(s, 17) = ":"
  /\ AllDigits(SubSeq(s, 18, 19))
  /\ ToNumber(SubSeq(s, 12, 13)) \in 0..23
  /\ ToNumber(SubSeq(s, 15, 16)) \in 0..59
  /\ ToNumber(SubSeq(s, 18, 19)) \in 0..59
\* what follows the seconds once an optional .sss fraction is removed
ZonePart(s) ==
  IF Len(s) >= 23 /\ CharAt(s, 20) = "." /\ AllDigits(SubSeq(s, 21, 23))
    THEN SubSeq(s, 24, Len(s))
    ELSE SubSeq(s, 20, Len(s))
\* Z or +HH:mm or -HH:mm
ZoneOk(z) ==
  \/ z = "Z"
  \/ /\ Len(z) = 6
     /\ CharAt(z, 1) \in {"+", "-"}
     /\ AllDigits(SubSeq(z, 2, 3)) /\ CharAt(z, 4) = ":"
     /\ AllDigits(SubSeq(z, 5, 6))
     /\ ToNumber(SubSeq(z, 2, 3)) \in 0..23
     /\ ToNumber(SubSeq(z, 5, 6)) \in 0..59
\* minutes the written local time is ahead of UTC
ZoneOffset(z) ==
  IF z = "Z" THEN 0
  ELSE (IF CharAt(z, 1) = "-" THEN -1 ELSE 1)
         * (ToNumber(SubSeq(z, 2, 3)) * 60 + ToNumber(SubSeq(z, 5, 6)))

\* Date.parse of the ISO forms YYYY-MM-DD and YYYY-MM-DDTHH:mm:ss[.sss]Z or
\* with a +HH:mm / -HH:mm offset; any other text is an Invalid Date
DateParse(s) ==
  IF ~DatePartOk(s) THEN NaNTime
  ELSE LET day == MakeDay(ToNumber(SubSeq(s, 1, 4)), ToNumber(SubSeq(s, 6, 7)),
                          ToNumber(SubSeq(s, 9, 10)))
       IN IF Len(s) = 10 THEN TimeOf(day * MinutesPerDay)
          ELSE IF TimePartOk(s) /\ ZoneOk(ZonePart(s))
            THEN TimeOf(day * MinutesPerDay
                          + ToNumber(SubSeq(s, 12, 13)) * 60
                          + ToNumber(SubSeq(s, 15, 16))
                          - ZoneOffset(ZonePart(s)))
            ELSE NaNTime

\* new Date(value) for a string or a number of milliseconds
NewDate(v) ==
  CASE v.type = "string" -> DateParse(v.str)
    [] v.type = "number" -> TimeOf(v.num \div MsPerMinute)
    [] OTHER -> NaNTime

\* line 35: tsString ? new Date(tsString) : new Date()
PartitionTime(tsString, now) ==
  IF Truthy(tsString) THEN NewDate(tsString) ELSE TimeOf(now)

\* JavaScript numbers as the getters return them
NaN == [nan |-> TRUE, n |-> 0]
Num(n) == [nan |-> FALSE, n |-> n]
GetUTCFullYear(ts) == IF ts.valid THEN Num(YearFromTime(ts.minutes)) ELSE NaN
GetUTCMonth(ts) == IF ts.valid THEN Num(MonthFromTime(ts.minutes)) ELSE NaN
GetUTCDate(ts) == IF ts.valid THEN Num(DateFromTime(ts.minutes)) ELSE NaN
Plus(x, k) == IF x.nan THEN NaN ELSE Num(x.n + k)
NumberToString(x) == IF x.nan THEN "NaN" ELSE ToString(x.n)
RECURSIVE PadStart(_, _, _)
PadStart(s, n, fill) ==
  IF Len(s) >= n THEN s ELSE PadStart(fill \o s, n, fill)

\* lines 36-38
YearText(ts) == NumberToString(GetUTCFullYear(ts))
UnpaddedMonth(ts) == NumberToString(Plus(GetUTCMonth(ts), 1))
MonthText(ts) == PadStart(NumberToString(Plus(GetUTCMonth(ts), 1)), 2, "0")
DayText(ts) == PadStart(NumberToString(GetUTCDate(ts)), 2, "0")

\* line 41: uuidv4(), the n-th identifier it produces
Uuidv4(n) == "00000000-0000-4000-8000-00000000000" \o ToString(n)

\* line 42
ObjectKey(year, month, day, batchId) ==
  "raw/year=" \o year \o "/month=" \o month \o "/day=" \o day \o "/"
    \o batchId \o ".json"

\* line 44: { ...r, objectKey }
SpreadFields(r) ==
  CASE r.type = "object" -> r.fields
    [] r.type = "array" ->
         [i \in 1..Len(r.items) |-> Field(ToString(i - 1), r.items[i])]
    [] r.type = "string" ->
         [i \in 1..Len(r.str) |-> Field(ToString(i - 1), VString(CharAt(r.str, i)))]
    [] OTHER -> <<>>
KeepIncoming(fields, key) ==
  IF \E i \in 1..Len(fields) : fields[i].key = "objectKey"
    THEN fields
    ELSE Append(fields, Field("objectKey", VString(key)))
WithObjectKey(fields, key) ==
  IF \E i \in 1..Len(fields) : fields[i].key = "objectKey"
    THEN [i \in 1..Len(fields) |->
            IF fields[i].key = "objectKey"
              THEN Field("objectKey", VString(key)) ELSE fields[i]]
    ELSE Append(fields, Field("objectKey", VString(key)))
RecordLine(r, key) == Stringify(VObject(WithObjectKey(SpreadFields(r), key)))

\* lines 43-45: records.map(...).join("\n")
RECURSIVE Join(_, _)
Join(lines, sep) ==
  IF Len(lines) = 0 THEN ""
  ELSE IF Len(lines) = 1 THEN lines[1]
  ELSE lines[1] \o sep \o Join(Tail(lines), sep)
ArrayBody(recs, key) ==
  "[" \o Join([i \in 1..Len(recs) |-> RecordLine(recs[i], key)], ",") \o "]"
FileBody(recs, key) ==
  Join([i \in 1..Len(recs) |-> RecordLine(recs[i], key)], "\n")

(***************************************************************************)
(* Inputs of the ingest function: request bodies and clock readings.       *)
(***************************************************************************)
\* timestamp texts: UTC, behind and ahead of UTC across midnight, a leap
\* day, the turn of a year (with a fraction of a second), a date without a
\* time, a text that is no date, and the empty string
TimestampTexts ==
  { "2025-02-10T12:00:00Z", "2025-02-10T23:30:00-05:00",
    "2024-03-01T00:30:00+01:00", "2026-01-01T00:00:00.000+02:00",
    "2025-11-05", "not-a-date", "" }
Stamped(id, text) ==
  VObject(<<Field("sensorId", VString(id)), Field("timestamp", VString(text))>>)
NoStamp == VObject(<<Field("sensorId", VString("S2"))>>)
\* a timestamp given as milliseconds since the epoch: 1970-01-02T00:00Z
NumberStamp ==
  VObject(<<Field("sensorId", VString("S4")),
            Field("timestamp", VNumber(24 * 60 * 60 * 1000))>>)
\* a record that arrives with an objectKey of its own
Keyed ==
  VObject(<<Field("objectKey", VString("raw/old.json")),
            Field("sensorId", VString("S5")),
            Field("timestamp", VString("2025-02-10T12:00:00Z"))>>)
\* a record with a line feed inside a string
Multiline ==
  VObject(<<Field("sensorId", VString("S\n6")),
            Field("timestamp", VString("2025-02-10T12:00:00Z"))>>)
\* a record of another date
OtherDate == Stamped("S9", "2024-07-04T00:00:00Z")
SingleRecords ==
  {Stamped("S1", t) : t \in TimestampTexts} \cup {NoStamp, NumberStamp}
ArrayPayloads ==
  { VArray(<<>>), VArray(<<VNumber(5)>>),
    VArray(<<Stamped("S1", "2025-02-10T12:00:00Z")>>),
    VArray(<<Stamped("S1", "2025-02-10T12:00:00Z"), OtherDate>>),
    VArray(<<Keyed, OtherDate, Multiline>>) } \cup ReadingPayloads
ScalarPayloads == {VNumber(5), VString("hi"), VNull}
PayloadValues == SingleRecords \cup ArrayPayloads \cup ScalarPayloads

\* a body with insignificant white space, and bodies that are not JSON
SpacedText ==
  "{ \"sensorId\" : \"S1\", \"timestamp\" : \"2025-02-10T12:00:00Z\" }"
InvalidTexts == {"invalid-json"}
CanonicalTexts == {Stringify(v) : v \in PayloadValues}
\* event.body: null, the empty string, or a text
RequestBodies ==
  {MissingBody, [present |-> TRUE, text |-> ""]}
    \cup {[present |-> TRUE, text |-> t] :
            t \in CanonicalTexts \cup {SpacedText} \cup InvalidTexts}

\* line 23: JSON.parse(event.body), the value or a SyntaxError
ParseTable ==
  [t \in CanonicalTexts |-> CHOOSE v \in PayloadValues : Stringify(v) = t]
JSONParse(text) ==
  IF text \in CanonicalTexts THEN [threw |-> FALSE, value |-> ParseTable[text]]
  ELSE IF text = SpacedText
    THEN [threw |-> FALSE, value |-> Stamped("S1", "2025-02-10T12:00:00Z")]
  ELSE [threw |-> TRUE, value |-> VUndefined]

\* readings of the clock, in minutes since the epoch
Clocks ==
  { DateParse("2026-01-05T08:15:00Z").minutes,
    DateParse("2027-12-31T23:59:00Z").minutes }

\* line 12
BUCKET_NAME == "datagonein60-rawdata"
S3ErrorMessage == "AccessDenied"

\* lines 13-18
BodyRequired ==
  [kind |-> "returned", statusCode |-> 400, message |-> "", objectKey |-> "",
   error |-> "Request body is required"]
\* lines 24-29
ServerErrorOnBadJson ==
  [kind |-> "returned", statusCode |-> 500, message |-> "", objectKey |-> "",
   error |-> "Invalid JSON format"]
InvalidJson ==
  [kind |-> "returned", statusCode |-> 400, message |-> "", objectKey |-> "",
   error |-> "Invalid JSON format"]
\* lines 58-64
Written(n, key) ==
  [kind |-> "returned", statusCode |-> 200,
   message |-> "Wrote " \o ToString(n) \o " records to S3", objectKey |-> key,
   error |-> ""]
\* lines 65-70
WriteFailureHidden(message) ==
  [kind |-> "returned", statusCode |-> 200, message |-> "", objectKey |-> "",
   error |-> ""]
WriteFailed(message) ==
  [kind |-> "returned", statusCode |-> 500, message |-> "", objectKey |-> "",
   error |-> message]
\* an exception that leaves the handler
IngestRaised(message) ==
  [kind |-> "raised", statusCode |-> 0, message |-> "", objectKey |-> "",
   error |-> message]

\* lines 47-56
PutObjectCommand(key, body) ==
  [Bucket |-> BUCKET_NAME, Key |-> key, Body |-> body,
   ContentType |-> "application/json", outcome |-> "pending"]

InitIngest ==
  /\ queue = <<>>
  /\ receives = 0
  /\ redelivered = <<>>
  /\ event = <<>>
  /\ pc = "idle"
  /\ messages = <<>>
  /\ attempt = 0
  /\ response = NoResponse
  /\ posts = <<>>
  /\ outcomes = <<>>
  /\ errors = <<>>
  /\ waits = <<>>
  /\ thrown = NoError
  /\ result = "none"
  /\ subsegments = <<>>
  /\ oversion = "part_007"
  /\ OrchIdle
  /\ IngestIdle
  /\ SinkIdle
  /\ AloneIdle

\* the handler ends before it derives a key
IngestEnds(resp) ==
  /\ iresponse' = resp
  /\ ipc' = "done"
  /\ irecords' = <<>>
  /\ inow' = 0
  /\ iyear' = ""
  /\ imonth' = ""
  /\ iday' = ""
  /\ ibatchId' = ""
  /\ iobjectKey' = ""
  /\ iputs' = <<>>
  /\ UNCHANGED <<iwrites, iuuids>>

\* lines 31-56: from the records to the PutObject call
DeriveAndPut(recs) ==
  LET first == FirstTimestamp(recs)
  IN IF first.threw
       THEN /\ IngestEnds(IngestRaised(TypeErrorMessage))
       ELSE \E now \in (IF Truthy(first.value) THEN {0} ELSE Clocks) :
            LET ts == PartitionTime(first.value, now)
                id == Uuidv4(iuuids + 1)
                key == ObjectKey(YearText(ts), MonthText(ts), DayText(ts), id)
            IN /\ iuuids < MaxBatches
               /\ irecords' = recs
               /\ inow' = now
               /\ iyear' = YearText(ts)
               /\ imonth' = MonthText(ts)
               /\ iday' = DayText(ts)
               /\ ibatchId' = id
               /\ iobjectKey' = key
               /\ iputs' = <<PutObjectCommand(key, FileBody(recs, key))>>
               /\ iuuids' = iuuids + 1
               /\ iresponse' = NoIngestResponse
               /\ ipc' = "put"
               /\ UNCHANGED iwrites

\* lines 9-56: one request, up to its answer or its PutObject call
IngestGets(body) ==
  /\ ibody' = body
  /\ IF ~body.present \/ body.text = ""
       THEN IngestEnds(BodyRequired)
       ELSE IF JSONParse(body.text).threw
         THEN IngestEnds(InvalidJson)
         ELSE DeriveAndPut(Records(JSONParse(body.text).value))
  /\ UNCHANGED <<dispVars, orchVars, sinkVars, concVars>>

IInvoke ==
  /\ ipc \in {"idle", "done"}
  /\ \E body \in RequestBodies : IngestGets(body)

\* lines 49-64: the bucket stores the object and the handler answers 200
IPutResolves ==
  /\ ipc = "put"
  /\ iputs' = [iputs EXCEPT ![1].outcome = "ok"]
  /\ iwrites' = Append(SelectSeq(iwrites, LAMBDA w : w.Key # iputs[1].Key),
                       [request |-> ibody.text, Key |-> iputs[1].Key,
                        Body |-> iputs[1].Body])
  /\ iresponse' = Written(Len(irecords), iobjectKey)
  /\ ipc' = "done"
  /\ UNCHANGED <<ibody, irecords, inow, iyear, imonth, iday, ibatchId,
                 iobjectKey, iuuids>>
  /\ UNCHANGED <<dispVars, orchVars, sinkVars, concVars>>

\* lines 65-70: the PutObject call rejects
IPutRejects ==
  /\ ipc = "put"
  /\ iputs' = [iputs EXCEPT ![1].outcome = "rejected"]
  /\ iresponse' = WriteFailed(S3ErrorMessage)
  /\ ipc' = "done"
  /\ UNCHANGED <<ibody, irecords, inow, iyear, imonth, iday, ibatchId,
                 iobjectKey, iwrites, iuuids>>
  /\ UNCHANGED <<dispVars, orchVars, sinkVars, concVars>>

NextIngest ==
  \/ IInvoke
  \/ IPutResolves
  \/ IPutRejects

SpecIngest == InitIngest /\ [][NextIngest]_vars

(***************************************************************************)
(* The sink webhook (src/valTownWebhook.ts): an HTTP endpoint that stores  *)
(* the entries of a POSTed JSON array in an SQLite table, one INSERT per   *)
(* entry, without a transaction.                                           *)
(***************************************************************************)
\* how many requests reach the webhook when it is driven on its own
MaxRequests == 2
\* how many times the database fails in one behaviour
MaxFailures == 3

SinkRequests ==
  {[method |-> "POST", body |-> b] : b \in SinkBodies}
    \cup {[method |-> "GET", body |-> ""],
          [method |-> "PUT", body |-> Stringify(VArray(<<LowerEntry>>))]}

\* messages of the errors the webhook can meet
DbErrorMessage == "SQLITE_BUSY"
ImportErrorMessage == "Module not found"
JsonErrorMessage == "Unexpected token 'o', \"not json\" is not valid JSON"
NullEntryMessage == "Cannot read properties of null (reading 'sensorId')"

\* lines 6-8, 34-39, 73-80 and 81-87: the responses; an exception that
\* leaves the function is an answer of kind "raised"
SinkResponse(status, text, error, count) ==
  [kind |-> "returned", status |-> status, text |-> text, error |-> error,
   recordsInserted |-> count]
MethodNotAllowed == SinkResponse(405, "Method Not Allowed", "", 0)
ExpectedArray == SinkResponse(400, "", "Invalid input: Expected an array", 0)
Inserted(count) == SinkResponse(200, "", "", count)
ErrorAnswered200(message) == SinkResponse(200, "", message, 0)
ServerError(message) == SinkResponse(500, "", message, 0)
SinkRaised(message) ==
  [kind |-> "raised", status |-> 0, text |-> "", error |-> message,
   recordsInserted |-> 0]

\* line 34: Array.isArray(payload)
ArrayOrObject(v) == v.type \in {"array", "object"}
IsArray(v) == v.type = "array"

\* lines 45-49: a ?? b, and the five values read from an entry
Coalesce(a, b) == IF a.type \in {"null", "undefined"} THEN b ELSE a
SensorIdOf(entry) ==
  Coalesce(GetField(entry, "sensorId"), GetField(entry, "sensorid"))
TemperatureOf(entry) ==
  Coalesce(GetField(entry, "temperatureC"), GetField(entry, "temperaturec"))
HumidityOf(entry) ==
  Coalesce(GetField(entry, "rawHumidity"), GetField(entry, "rawhumidity"))
TimestampOf(entry) == GetField(entry, "timestamp")
ObjectKeyOf(entry) ==
  Coalesce(GetField(entry, "objectKey"), GetField(entry, "objectkey"))
\* line 45: reading a property of null raises a TypeError
EntryRaises(entry) == entry.type \in {"null", "undefined"}

\* lines 51-57: the test that skips an entry
Nullish(v) == v.type \in {"null", "undefined"}
Malformed(entry) ==
  \/ ~Truthy(SensorIdOf(entry))
  \/ Nullish(TemperatureOf(entry))
  \/ Nullish(HumidityOf(entry))
  \/ ~Truthy(TimestampOf(entry))
  \/ ~Truthy(ObjectKeyOf(entry))

\* lines 62-68: the row an INSERT adds; received_at is the ordinal of the
\* request that was being served
Row(entry, request) ==
  [sensor_id |-> SensorIdOf(entry), temperature_c |-> TemperatureOf(entry),
   raw_humidity |-> HumidityOf(entry), timestamp |-> TimestampOf(entry),
   object_key |-> ObjectKeyOf(entry), received_at |-> request]

\* the imports and database calls that failed so far
Failures ==
  Cardinality({k \in 1..Len(sanswers) :
                 sanswers[k].error \in {DbErrorMessage, ImportErrorMessage}})

\* the function ends: the request is recorded with its answer
Answer(req, resp) ==
  /\ sanswers' = Append(sanswers,
       [method |-> req.method, body |-> req.body, kind |-> resp.kind,
        status |-> resp.status, text |-> resp.text, error |-> resp.error,
        recordsInserted |-> resp.recordsInserted])
  /\ spc' = "done"

\* lines 43-60: the first position from i of an entry that is not skipped
RECURSIVE NextEntry(_, _)
NextEntry(items, i) ==
  IF i > Len(items) THEN i
  ELSE IF ~EntryRaises(items[i]) /\ Malformed(items[i])
    THEN NextEntry(items, i + 1)
  ELSE i

\* lines 43-80: the for loop from position i, up to its next INSERT, a
\* TypeError, or the 200 response
LoopFrom(items, i, count) ==
  LET k == NextEntry(items, i)
  IN /\ sindex' = k
     /\ IF k > Len(items) THEN Answer(sreq, Inserted(count))
        ELSE IF EntryRaises(items[k])
          THEN Answer(sreq, ServerError(NullEntryMessage))
        ELSE /\ spc' = "insert"
             /\ sanswers' = sanswers

InitSink ==
  /\ queue = <<>>
  /\ receives = 0
  /\ redelivered = <<>>
  /\ event = <<>>
  /\ pc = "idle"
  /\ messages = <<>>
  /\ attempt = 0
  /\ response = NoResponse
  /\ posts = <<>>
  /\ outcomes = <<>>
  /\ errors = <<>>
  /\ waits = <<>>
  /\ thrown = NoError
  /\ result = "none"
  /\ subsegments = <<>>
  /\ oversion = "part_007"
  /\ OrchIdle
  /\ IngestIdle
  /\ SinkIdle
  /\ AloneIdle

\* lines 4-11: a request arrives; any method but POST is answered at once
SReceive(method, body) ==
  /\ spc \in {"idle", "done"}
  /\ sreq' = [method |-> method, body |-> body]
  /\ spayload' = VUndefined
  /\ sindex' = 0
  /\ sinserted' = 0
  /\ stable' = stable
  /\ IF method # "POST"
       THEN Answer(sreq', MethodNotAllowed)
       ELSE /\ spc' = "import"
            /\ sanswers' = sanswers

SRequest ==
  /\ Len(sanswers) < MaxRequests
  /\ \E r \in SinkRequests : SReceive(r.method, r.body)
  /\ UNCHANGED <<dispVars, orchVars, ingVars, concVars>>

\* lines 11-19: the import of the sqlite module resolves; the function
\* calls sqlite.execute(CREATE TABLE ...) and waits again
SImportResolves ==
  /\ spc = "import"
  /\ spc' = "setup"
  /\ UNCHANGED <<sreq, spayload, sindex, sinserted, stable, sanswers>>
  /\ UNCHANGED <<dispVars, orchVars, ingVars, concVars>>

\* line 11: the import rejects, outside the try block
SImportRejects ==
  /\ spc = "import"
  /\ Failures < MaxFailures
  /\ Answer(sreq, SinkRaised(ImportErrorMessage))
  /\ UNCHANGED <<sreq, spayload, sindex, sinserted, stable>>
  /\ UNCHANGED <<dispVars, orchVars, ingVars, concVars>>

\* lines 19-32: CREATE TABLE resolves; the function calls req.json()
SSetupResolves ==
  /\ spc = "setup"
  /\ spc' = "json"
  /\ UNCHANGED <<sreq, spayload, sindex, sinserted, stable, sanswers>>
  /\ UNCHANGED <<dispVars, orchVars, ingVars, concVars>>

\* lines 19-29: CREATE TABLE rejects, outside the try block
SSetupRejects ==
  /\ spc = "setup"
  /\ Failures < MaxFailures
  /\ Answer(sreq, SinkRaised(DbErrorMessage))
  /\ UNCHANGED <<sreq, spayload, sindex, sinserted, stable>>
  /\ UNCHANGED <<dispVars, orchVars, ingVars, concVars>>

\* lines 32-60: req.json() settles; an array starts the for loop
SJsonSettles ==
  /\ spc = "json"
  /\ LET r == ParseJSON(sreq.body)
     IN IF r.threw
          THEN /\ Answer(sreq, ServerError(JsonErrorMessage))
               /\ UNCHANGED <<spayload, sindex>>
          ELSE /\ spayload' = r.value
               /\ IF IsArray(r.value)
                    THEN LoopFrom(r.value.items, 1, 0)
                    ELSE /\ Answer(sreq, ExpectedArray)
                         /\ sindex' = sindex
  /\ UNCHANGED <<sreq, sinserted, stable>>
  /\ UNCHANGED <<dispVars, orchVars, ingVars, concVars>>

\* lines 62-71: the INSERT resolves and the loop goes on
SInsertResolves ==
  /\ spc = "insert"
  /\ stable' = Append(stable, Row(spayload.items[sindex], Len(sanswers) + 1))
  /\ sinserted' = sinserted + 1
  /\ LoopFrom(spayload.items, sindex + 1, sinserted + 1)
  /\ UNCHANGED <<sreq, spayload>>
  /\ UNCHANGED <<dispVars, orchVars, ingVars, concVars>>

\* lines 62-68 and 81-87: the INSERT rejects
SInsertRejects ==
  /\ spc = "insert"
  /\ Failures < MaxFailures
  /\ Answer(sreq, ServerError(DbErrorMessage))
  /\ UNCHANGED <<sreq, spayload, sindex, sinserted, stable>>
  /\ UNCHANGED <<dispVars, orchVars, ingVars, concVars>>

\* what the webhook does between a request and its answer
SinkSteps ==
  \/ SImportResolves
  \/ SImportRejects
  \/ SSetupResolves
  \/ SSetupRejects
  \/ SJsonSettles
  \/ SInsertResolves
  \/ SInsertRejects

NextSink ==
  \/ SRequest
  \/ SinkSteps

SpecSink == InitSink /\ [][NextSink]_vars


(***************************************************************************)
(* The dispatcher posting to the webhook: each POST of postBatch is a      *)
(* request to the sink, and what the sink answers is the Response that     *)
(* fetch() resolves with.  The network delivers every request and answer.  *)
(***************************************************************************)
\* import.meta.url with esm.town replaced
SourceUrl == "https://val.town/v/pchinjr/externalDataWarehouse"
\* lines 7, 36, 74-78 and 84: the body of the Response
ResponseText(a) ==
  IF a.status = 405 THEN a.text
  ELSE IF a.status = 200
    THEN Stringify(VObject(<<Field("ok", VTrue),
                             Field("recordsInserted", VNumber(a.recordsInserted)),
                             Field("sourceUrl", VString(SourceUrl))>>))
  ELSE Stringify(VObject(<<Field("error", VString(a.error))>>))

InitDelivery ==
  /\ queue \in SeqsUpTo(DeliveryBodies, MaxQueue)
  /\ receives = 0
  /\ redelivered = <<>>
  /\ event = <<>>
  /\ pc = "idle"
  /\ messages = <<>>
  /\ attempt = 0
  /\ response = NoResponse
  /\ posts = <<>>
  /\ outcomes = <<>>
  /\ errors = <<>>
  /\ waits = <<>>
  /\ thrown = NoError
  /\ result = "none"
  /\ subsegments = <<>>
  /\ oversion = "part_007"
  /\ OrchIdle
  /\ IngestIdle
  /\ SinkIdle
  /\ AloneIdle

\* sendToExternalBatch.ts lines 28-32: the POST reaches the webhook
PostArrives ==
  /\ pc = "fetch"
  /\ spc = "idle"
  /\ SReceive("POST", posts[Len(posts)])
  /\ UNCHANGED <<dispVars, orchVars, ingVars, concVars>>

\* sendToExternalBatch.ts line 28: fetch() resolves with the sink's answer
AnswerArrives ==
  /\ spc = "done"
  /\ FetchGets(sanswers[Len(sanswers)].status)
  /\ spc' = "idle"
  /\ UNCHANGED <<sreq, spayload, sindex, sinserted, stable, sanswers>>
  /\ UNCHANGED <<orchVars, ingVars, concVars>>

\* sendToExternalBatch.ts lines 35 and 40: response.text() resolves
AnswerTextArrives == TextGets(ResponseText(sanswers[Len(sanswers)]))

NextDelivery ==
  \/ Deliver
  \/ HandlerStart
  \/ LoopIteration
  \/ PostArrives
  \/ SImportResolves
  \/ SSetupResolves
  \/ SJsonSettles
  \/ SInsertResolves
  \/ SInsertRejects
  \/ AnswerArrives
  \/ AnswerTextArrives
  \/ TimerFires
  \/ Ack
  \/ Nack

SpecDelivery == InitDelivery /\ [][NextDelivery]_vars

\* every request and answer arrives, every database call settles, every
\* timer fires and the queue hands over what it holds
SpecDeliveryFair == SpecDelivery /\ WF_vars(NextDelivery)


(***************************************************************************)
(* Two dispatcher invocations at once.  Lambda runs concurrent invocations *)
(* in separate execution environments; the queue hands each a batch of its *)
(* own.  The variables event .. subsegments hold the locals of the         *)
(* invocation that is taking steps, `other` holds the locals of the        *)
(* invocation that is not, and Switch changes between the two at any       *)
(* moment.                                                                 *)
(***************************************************************************)
\* the sink's answers and the bodies on the queue while two invocations run
PairStatuses == {200, 500}
PairText == "ok"
PairBodies == {"{\"sensorid\":\"s1\"}", "{ \"sensorid\" : \"s2\" }", "not json"}

\* a counter at module level would be the same for both invocations
SharedAttempt(saved, running) == running
\* line 14: `let attempt = 0` is a local of each call of postBatch
OwnAttempt(saved, running) == saved.attempt

\* handler and postBatch: the locals of the running invocation
Locals ==
  [event |-> event, pc |-> pc, messages |-> messages, attempt |-> attempt,
   response |-> response, posts |-> posts, outcomes |-> outcomes,
   errors |-> errors, waits |-> waits, thrown |-> thrown, result |-> result,
   subsegments |-> subsegments]

InitPair ==
  /\ queue \in SeqsUpTo(PairBodies, MaxQueue)
  /\ receives = 0
  /\ redelivered = <<>>
  /\ event = <<>>
  /\ pc = "idle"
  /\ messages = <<>>
  /\ attempt = 0
  /\ response = NoResponse
  /\ posts = <<>>
  /\ outcomes = <<>>
  /\ errors = <<>>
  /\ waits = <<>>
  /\ thrown = NoError
  /\ result = "none"
  /\ subsegments = <<>>
  /\ oversion = "part_007"
  /\ OrchIdle
  /\ IngestIdle
  /\ SinkIdle
  /\ AloneIdle

\* the queue hands the first n of its messages to an invocation that starts
DeliverSome ==
  /\ pc = "idle"
  /\ \E n \in 1..Min(Len(queue), BatchSize) :
       /\ event' = SubSeq(queue, 1, n)
       /\ queue' = SubSeq(queue, n + 1, Len(queue))
  /\ receives' = receives + 1
  /\ redelivered' = <<>>
  /\ pc' = "invoked"
  /\ messages' = <<>>
  /\ attempt' = 0
  /\ response' = NoResponse
  /\ posts' = <<>>
  /\ outcomes' = <<>>
  /\ errors' = <<>>
  /\ waits' = <<>>
  /\ thrown' = NoError
  /\ result' = "none"
  /\ subsegments' = <<>>
  /\ UNCHANGED <<orchVars, ingVars, sinkVars, concVars>>

\* the other invocation takes the next steps
Switch ==
  /\ other' = Locals
  /\ current' = 3 - current
  /\ event' = other.event
  /\ pc' = other.pc
  /\ messages' = other.messages
  /\ attempt' = OwnAttempt(other, attempt)
  /\ response' = other.response
  /\ posts' = other.posts
  /\ outcomes' = other.outcomes
  /\ errors' = other.errors
  /\ waits' = other.waits
  /\ thrown' = other.thrown
  /\ result' = other.result
  /\ subsegments' = other.subsegments
  /\ UNCHANGED <<queue, receives, redelivered>>
  /\ UNCHANGED <<orchVars, ingVars, sinkVars>>

PairFetchResolves ==
  /\ \E status \in PairStatuses : FetchGets(status)
  /\ UNCHANGED <<orchVars, ingVars, sinkVars, concVars>>

PairTextResolves == TextGets(PairText)

NextPair ==
  \/ DeliverSome
  \/ HandlerStart
  \/ LoopIteration
  \/ FetchRejects
  \/ PairFetchResolves
  \/ PairTextResolves
  \/ TimerFires
  \/ Switch

SpecPair == InitPair /\ [][NextPair]_vars

(***************************************************************************)
(* The whole pipeline when nothing fails: one ingest request, the query    *)
(* engine reading the stored object line by line, one run of the           *)
(* orchestrator (part_007), and the dispatcher with a sink that answers    *)
(* 2xx.                                                                    *)
(***************************************************************************)
\* the sink's answers and the engine's states when nothing fails
GoodStatuses == {200, 204}
GoodStates == {"RUNNING", "QUEUED", "SUCCEEDED"}

\* the lines of an object
RECURSIVE SplitLines(_)
SplitLines(t) ==
  IF t = "" THEN <<>>
  ELSE LET stop == FirstWhere(t, {"\n"}, TRUE, 1, Len(t))
       IN IF stop = 0 THEN <<t>>
          ELSE <<SubSeq(t, 1, stop - 1)>>
                 \o SplitLines(SubSeq(t, stop + 1, Len(t)))

\* a column value as the engine returns it in VarCharValue: a STRING
\* column as it is, a DOUBLE column (athena-setup.md lines 13-17) as a double
CellText(v) ==
  CASE v.type = "string" -> v.str
    [] v.type = "number" -> DoubleText(v.num)
    [] OTHER -> Undefined

\* part_007 lines 33-39: the row the query selects from one line
EngineRow(line) ==
  LET r == ParseText(line).value
  IN [hasData |-> TRUE,
      Data |-> <<CellText(GetField(r, "sensorId")),
                 Celsius(GetField(r, "rawTemperature").num),
                 CellText(GetField(r, "rawHumidity")),
                 CellText(GetField(r, "timestamp")),
                 CellText(GetField(r, "objectKey"))>>]
RECURSIVE ScanObjects(_)
ScanObjects(objects) ==
  IF Len(objects) = 0 THEN <<>>
  ELSE LET lines == SplitLines(objects[1].Body)
       IN [i \in 1..Len(lines) |-> EngineRow(lines[i])]
            \o ScanObjects(Tail(objects))
\* the result set: the header row, then one row per stored line (every
\* object of the model lies in the partition the query names)
EngineRows(objects) == <<HeaderRow>> \o ScanObjects(objects)

InitPipeline ==
  /\ queue = <<>>
  /\ receives = 0
  /\ redelivered = <<>>
  /\ event = <<>>
  /\ pc = "idle"
  /\ messages = <<>>
  /\ attempt = 0
  /\ response = NoResponse
  /\ posts = <<>>
  /\ outcomes = <<>>
  /\ errors = <<>>
  /\ waits = <<>>
  /\ thrown = NoError
  /\ result = "none"
  /\ subsegments = <<>>
  /\ oversion = "part_007"
  /\ OrchIdle
  /\ IngestIdle
  /\ SinkIdle
  /\ AloneIdle

\* a client posts one batch of readings
PipeIngest ==
  /\ ipc = "idle"
  /\ \E v \in ReadingPayloads :
       IngestGets([present |-> TRUE, text |-> Stringify(v)])

\* the engine runs the submitted query over the objects stored by then
EngineScans ==
  /\ opc = "poll"
  /\ ~otable.known
  /\ otable' = [known |-> TRUE, rows |-> EngineRows(iwrites)]
  /\ UNCHANGED <<oversion, opc, ostatus, oexecId, orows, odataRows, orowIndex,
                 ocalls, oresponse, osubsegments, oruns, queue>>
  /\ UNCHANGED <<dispOther, ingVars, sinkVars, concVars>>

\* GetQueryExecution: SUCCEEDED once the engine has run the query
PipePollResolves ==
  \E state \in GoodStates :
    /\ state = "SUCCEEDED" => otable.known
    /\ PollGets(state, Undefined)

\* the event source mapping invokes the dispatcher when messages wait
PipeDeliver ==
  /\ queue # <<>>
  /\ Deliver

PipeFetchResolves ==
  /\ \E status \in GoodStatuses : FetchGets(status)
  /\ UNCHANGED <<orchVars, ingVars, sinkVars, concVars>>

PipeTextResolves == TextGets("ok")

NextPipeline ==
  \/ PipeIngest
  \/ IPutResolves
  \/ OInvoke
  \/ OSubmitResolves
  \/ EngineScans
  \/ PipePollResolves
  \/ OTimerFires
  \/ OFetchResolves
  \/ OEnqueueResolves
  \/ PipeDeliver
  \/ HandlerStart
  \/ LoopIteration
  \/ PipeFetchResolves
  \/ PipeTextResolves
  \/ Ack

SpecPipeline == InitPipeline /\ [][NextPipeline]_vars

TypeOK ==
  /\ pc \in {"idle", "invoked", "loop", "fetch", "text", "sleep", "done"}
  /\ result \in {"none", "returned", "raised"}
  /\ attempt \in 0..MAX_RETRIES
  /\ Len(outcomes) <= Len(posts)

(***************************************************************************)
(* Vocabulary of the properties.                                           *)
(***************************************************************************)
\* the sink answered the attempt with a status in 200..299
Is2xx(o) == o.kind = "response" /\ o.status >= 200 /\ o.status <= 299
\* the attempt met a transport error or a status outside 200..299
SinkFailed(o) == o.kind = "reject" \/ ~Is2xx(o)
\* the attempt's try block raised: a transport error, a status outside 2xx,
\* or a response whose body could not be read
AttemptRaised(o) == SinkFailed(o) \/ ~o.readable
\* the sink answered 2xx and the body was read
AttemptSucceeded(o) == Is2xx(o) /\ o.readable

Undecodable(body) == JSONparse(body).threw
IsDecodable(body) == ~JSONparse(body).threw
\* the decoded bodies of the records whose body is valid JSON, in order
DecodedBodies(records) ==
  LET valid == SelectSeq(records, IsDecodable)
  IN [i \in 1..Len(valid) |-> JSONparse(valid[i]).value]

\* the invocation has ended (the queue may already have taken its verdict)
Ended == pc \in {"done", "idle"} /\ result # "none"

(***************************************************************************)
(* C1: one call of postBatch performs at most 3 POSTs, and a further POST  *)
(* is performed only if every earlier attempt of the call failed, that is  *)
(* met a transport error or a status outside 2xx.                          *)
(***************************************************************************)
C1_AtMostThreeAttempts ==
  /\ Len(posts) <= 3
  /\ \A i \in 1..Len(posts) : \A j \in 1..(i - 1) :
       j <= Len(outcomes) /\ SinkFailed(outcomes[j])

(***************************************************************************)
(* C2: when the sink fails attempts 1..k-1 (transport error or status     *)
(* outside 2xx) and answers attempt k with a 2xx status, exactly k POSTs   *)
(* are made, failed attempt i is followed by one wait of i*1000 ms that    *)
(* ends before POST i+1, nothing is waited before POST 1, and the call     *)
(* returns successfully.                                                   *)
(***************************************************************************)
C2_BackoffThenSuccess ==
  /\ pc \in {"fetch", "text"} => Len(waits) = Len(posts) - 1
  /\ pc = "sleep" => Len(waits) = Len(posts)
  /\ \A k \in 1..3 :
       ( /\ Len(outcomes) = k
         /\ \A i \in 1..(k - 1) : SinkFailed(outcomes[i])
         /\ Is2xx(outcomes[k]) )
       => /\ Len(posts) = k
          /\ waits = [i \in 1..(k - 1) |-> [afterPost |-> i, ms |-> i * 1000]]
          /\ result = "returned"
          /\ thrown = NoError

(***************************************************************************)
(* C3: when all 3 attempts fail, postBatch raises after exactly 3 POSTs,   *)
(* starts no wait and no POST after the third failure, the error raised is *)
(* the error of the third attempt, and the handler raises that same error. *)
(***************************************************************************)
C3_ExhaustionRaisesThirdError ==
  ( /\ Len(outcomes) = 3
    /\ \A i \in 1..3 : AttemptRaised(outcomes[i]) )
  => /\ Ended
     /\ result = "raised"
     /\ Len(posts) = 3
     /\ Len(waits) = 2
     /\ Len(errors) = 3
     /\ thrown = errors[3]
     /\ thrown.attemptNo = 3

C3_Witness ==
  /\ result = "raised"
  /\ Len(posts) = 3
  /\ thrown.attemptNo = 3

(***************************************************************************)
(* C4: the handler completes without error only if no record of the batch  *)
(* decoded, or a POST carrying every successfully decoded message of the   *)
(* batch received a 2xx response.                                          *)
(***************************************************************************)
C4_ReturnOnlyAfterConfirmedSend ==
  result = "returned" =>
    \/ \A i \in 1..Len(event) : Undecodable(event[i])
    \/ \E i \in 1..Len(outcomes) :
         /\ posts[i] = JSONstringify(DecodedBodies(event))
         /\ Is2xx(outcomes[i])

(***************************************************************************)
(* C5: the body of every outbound POST is the array of the decoded bodies  *)
(* of exactly the records whose body is valid JSON, in delivery order.     *)
(***************************************************************************)
C5_PostBodyIsAllValidRecords ==
  \A i \in 1..Len(posts) : posts[i] = JSONstringify(DecodedBodies(event))

(***************************************************************************)
(* C6: when no record of the batch decodes (the empty batch included), the *)
(* dispatcher performs zero POSTs and completes successfully.              *)
(***************************************************************************)
C6_NothingDecodedNoPost ==
  ( /\ receives > 0
    /\ pc # "invoked"
    /\ \A i \in 1..Len(event) : Undecodable(event[i]) )
  => /\ posts = <<>>
     /\ waits = <<>>
     /\ Ended
     /\ result = "returned"
     /\ thrown = NoError

C6_Witness ==
  /\ result = "returned"
  /\ Len(event) >= 2
  /\ \A i \in 1..Len(event) : Undecodable(event[i])
  /\ posts = <<>>

(***************************************************************************)
(* C7: an attempt that received a 2xx response counts as success whether   *)
(* or not the response body can be read: it is the last POST of the call,  *)
(* no wait follows it and the call returns.                                *)
(***************************************************************************)
C7_Any2xxIsSuccess ==
  \A i \in 1..Len(outcomes) :
    Is2xx(outcomes[i]) =>
      /\ Len(posts) = i
      /\ Len(waits) = i - 1
      /\ result = "returned"

(***************************************************************************)
(* C8: an attempt fails if and only if the transport raises or the status  *)
(* is outside 2xx, and the error of a non-2xx response carries the status  *)
(* code and the response body text.                                        *)
(***************************************************************************)
C8_FailureIffTransportOrNon2xx ==
  \A i \in 1..Len(outcomes) :
    /\ (i <= Len(errors)) <=> SinkFailed(outcomes[i])
    /\ (outcomes[i].kind = "response" /\ ~Is2xx(outcomes[i]))
         => /\ i <= Len(errors)
            /\ errors[i].message =
                 "HTTP " \o ToString(outcomes[i].status) \o ": " \o outcomes[i].text

(***************************************************************************)
(* C9: every POST of one invocation sends the same body, the full array of *)
(* the messages the handler decoded once at its start.                     *)
(***************************************************************************)
C9_EveryAttemptSendsFullBatch ==
  \A i \in 1..Len(posts) :
    /\ posts[i] = posts[1]
    /\ posts[i] = JSONstringify(messages)
    /\ messages = ParseRecords(event)

C9_Witness ==
  /\ Len(posts) = 3
  /\ Len(messages) >= 2
  /\ posts[3] = posts[1]

(***************************************************************************)
(* C10 as stated: a message whose body fails to decode is never returned   *)
(* to the queue, whatever the outcome of the POST of the rest of its batch.*)
(***************************************************************************)
C10_UndecodableNeverRedelivered ==
  \A i \in 1..Len(redelivered) : ~Undecodable(redelivered[i])

(***************************************************************************)
(* C10 amended: a message whose body fails to decode is not returned to    *)
(* the queue when the handler completes (nothing to send, or the POST of   *)
(* the rest of the batch succeeded); when all 3 attempts fail the handler  *)
(* raises and the queue gets the whole batch back, the undecodable         *)
(* messages included.                                                      *)
(***************************************************************************)
C10_RedeliveryFollowsHandlerResult ==
  (pc = "idle" /\ receives > 0) =>
    /\ ( \/ posts = <<>>
         \/ (Len(outcomes) = Len(posts) /\ AttemptSucceeded(outcomes[Len(posts)])) )
       => (redelivered = <<>> /\ queue = <<>>)
    /\ ( /\ Len(outcomes) = 3
         /\ \A i \in 1..3 : AttemptRaised(outcomes[i]) )
       => (redelivered = event /\ queue = event)

C10_Witness ==
  /\ pc = "idle"
  /\ \E i \in 1..Len(event) : Undecodable(event[i])
  /\ Len(posts) >= 1
  /\ AttemptSucceeded(outcomes[Len(posts)])
  /\ redelivered = <<>>

(***************************************************************************)
(* Vocabulary of the orchestrator properties.                              *)
(***************************************************************************)
IsCall(i, op) == ocalls[i].op = op
\* call i is a GetQueryExecution that returned the given state
PollReported(i, state) ==
  IsCall(i, "Poll") /\ ocalls[i].outcome = "ok" /\ ocalls[i].value = state
PollReportedFailure(i) ==
  PollReported(i, "FAILED") \/ PollReported(i, "CANCELLED")
PollReportedBusy(i) ==
  PollReported(i, "RUNNING") \/ PollReported(i, "QUEUED")
SomeCallRejected == \E i \in 1..Len(ocalls) : ocalls[i].outcome = "rejected"
FetchReturned ==
  \E i \in 1..Len(ocalls) : IsCall(i, "Fetch") /\ ocalls[i].outcome = "ok"
\* the SendMessage calls, in order
EnqueueCalls == SelectSeq(ocalls, LAMBDA c : c.op = "Enqueue")
\* position of an operation in one query lifecycle
Rank(op) ==
  CASE op = "Submit" -> 1
    [] op = "Poll" -> 2
    [] op = "Sleep" -> 2
    [] op = "Fetch" -> 3
    [] OTHER -> 4
OrchEnded == opc = "done"

(***************************************************************************)
(* C11: GetQueryResults is called only after a poll has reported           *)
(* SUCCEEDED; after any other polled state there is no Fetch and no        *)
(* enqueue.                                                                *)
(***************************************************************************)
C11_FetchOnlyAfterSucceeded ==
  \A i \in 1..Len(ocalls) :
    (IsCall(i, "Fetch") \/ IsCall(i, "Enqueue"))
      => \E j \in 1..(i - 1) : PollReported(j, "SUCCEEDED")

(***************************************************************************)
(* C12: a poll reporting FAILED or CANCELLED is the last thing the         *)
(* invocation does with its collaborators: no delay, poll, Fetch, enqueue  *)
(* or second submission follows, and the error of the 500 response         *)
(* contains the engine's state-change reason (part_007).                   *)
(***************************************************************************)
C12_FailureStopsWithReason ==
  oversion = "part_007" =>
    \A i \in 1..Len(ocalls) :
      PollReportedFailure(i) =>
        /\ i = Len(ocalls)
        /\ OrchEnded
        /\ CountOf(ocalls, "Fetch") = 0
        /\ CountOf(ocalls, "Enqueue") = 0
        /\ CountOf(ocalls, "Submit") = 1
        /\ queue = <<>>
        /\ oresponse.statusCode = 500
        /\ oresponse.error = "Athena query failed: " \o ocalls[i].reason

C12_Witness ==
  /\ oversion = "part_007"
  /\ OrchEnded
  /\ Len(ocalls) = 4
  /\ PollReported(2, "RUNNING")
  /\ PollReported(4, "FAILED")
  /\ ocalls[4].reason = "SYNTAX_ERROR: line 1:8"

(***************************************************************************)
(* C13: in the version the unit test exercises (part_006), a poll that     *)
(* reports FAILED makes the handler return, not throw, a response with     *)
(* statusCode 500 whose error says the query failed with status FAILED.    *)
(***************************************************************************)
C13_FailedGives500WithStatus ==
  oversion = "part_006" =>
    \A i \in 1..Len(ocalls) :
      PollReported(i, "FAILED") =>
        /\ OrchEnded
        /\ oresponse.kind = "returned"
        /\ oresponse.statusCode = 500
        /\ oresponse.error = "Athena query failed with status FAILED"

C13_Witness ==
  /\ oversion = "part_006"
  /\ Len(ocalls) = 2
  /\ PollReported(2, "FAILED")
  /\ oresponse.statusCode = 500

(***************************************************************************)
(* C14: of every fetched result set the first row is dropped whatever it   *)
(* holds and the data rows are the remaining rows in order; no row or only *)
(* one row gives no data row, no enqueue and a 200 response.               *)
(***************************************************************************)
C14_FirstRowDiscarded ==
  FetchReturned =>
    /\ Len(odataRows) = (IF Len(orows) = 0 THEN 0 ELSE Len(orows) - 1)
    /\ \A k \in 1..Len(odataRows) : odataRows[k] = orows[k + 1]
    /\ Len(orows) <= 1 =>
         /\ CountOf(ocalls, "Enqueue") = 0
         /\ OrchEnded
         /\ oresponse.statusCode = 200
         /\ oresponse.processedRows = 0

C14_Witness ==
  /\ FetchReturned
  /\ Len(orows) = 3
  /\ orows[1] = FullRow
  /\ odataRows = <<orows[2], orows[3]>>
  /\ oresponse.statusCode = 200

(***************************************************************************)
(* C15: on a run that ends with 200 there is exactly one SendMessage per   *)
(* data row, in row order, each carrying that row alone, and processedRows *)
(* equals the number of calls and of data rows.                            *)
(***************************************************************************)
C15_OneMessagePerRow ==
  oresponse.statusCode = 200 =>
    /\ Len(EnqueueCalls) = Len(odataRows)
    /\ oresponse.processedRows = Len(EnqueueCalls)
    /\ oresponse.processedRows = Len(odataRows)
    /\ \A k \in 1..Len(EnqueueCalls) :
         /\ EnqueueCalls[k].outcome = "ok"
         /\ EnqueueCalls[k].arg = MessageBody(oversion, odataRows[k])
    /\ queue = [k \in 1..Len(odataRows) |-> MessageBody(oversion, odataRows[k])]

C15_Witness ==
  /\ oresponse.statusCode = 200
  /\ oresponse.processedRows = 2
  /\ odataRows = <<ShortRow, FullRow>>
  /\ Len(queue) = 2

(***************************************************************************)
(* C16: when the enqueue of one row fails the enqueue of every remaining   *)
(* row is still attempted, and the response reports how many rows were     *)
(* enqueued out of the rows available.                                     *)
(***************************************************************************)
C16_EnqueueFailureDoesNotAbort ==
  ( /\ OrchEnded
    /\ \E k \in 1..Len(EnqueueCalls) : EnqueueCalls[k].outcome = "rejected" )
  => /\ Len(EnqueueCalls) = Len(odataRows)
     /\ oresponse.processedRows = Len(queue)

(***************************************************************************)
(* C17: one Submit first, then the polls and their delays, then at most    *)
(* one Fetch, then the enqueues; a call starts only when the one before    *)
(* has ended; a Submit that returned is followed by at least one poll and  *)
(* a Submit that failed by nothing.                                        *)
(***************************************************************************)
C17_OneLifecycleInOrder ==
  opc # "idle" =>
    /\ IsCall(1, "Submit")
    /\ CountOf(ocalls, "Submit") = 1
    /\ CountOf(ocalls, "Fetch") <= 1
    /\ \A i \in 1..Len(ocalls) : \A j \in (i + 1)..Len(ocalls) :
         /\ Rank(ocalls[i].op) <= Rank(ocalls[j].op)
         /\ ocalls[i].outcome # "pending"
    /\ (CountOf(ocalls, "Enqueue") > 0) => FetchReturned
    /\ ( /\ ocalls[1].outcome = "ok"
         /\ (oversion = "part_007" \/ ocalls[1].value # Undefined) )
       => (Len(ocalls) >= 2 /\ IsCall(2, "Poll"))
    /\ ocalls[1].outcome = "rejected" => (Len(ocalls) = 1 /\ queue = <<>>)

C17_Witness ==
  /\ OrchEnded
  /\ oresponse.statusCode = 200
  /\ Len(ocalls) = 8
  /\ IsCall(1, "Submit") /\ IsCall(2, "Poll") /\ IsCall(4, "Poll")
  /\ IsCall(6, "Fetch") /\ IsCall(7, "Enqueue") /\ IsCall(8, "Enqueue")

(***************************************************************************)
(* C18: the loop has no poll limit and no timeout: every poll that reports *)
(* RUNNING or QUEUED is followed by the delay and then by another poll,    *)
(* and the invocation does not end while that is what the engine reports.  *)
(***************************************************************************)
C18_PollsWhileBusy ==
  \A i \in 1..Len(ocalls) :
    PollReportedBusy(i) =>
      /\ ~OrchEnded \/ i + 2 <= Len(ocalls)
      /\ i + 1 <= Len(ocalls)
      /\ IsCall(i + 1, "Sleep")
      /\ \/ (i + 1 = Len(ocalls) /\ ocalls[i + 1].outcome = "pending")
         \/ (i + 2 <= Len(ocalls) /\ IsCall(i + 2, "Poll"))

C18_Witness ==
  /\ CountOf(ocalls, "Poll") = MaxPolls
  /\ \A i \in 1..(Len(ocalls) - 1) : IsCall(i, "Poll") => PollReportedBusy(i)
  /\ opc = "poll"

(***************************************************************************)
(* C19: when the engine ends up reporting a state other than RUNNING and   *)
(* QUEUED and every call returns or raises, a started invocation           *)
(* eventually ends with a response of statusCode 200 or 500.               *)
(***************************************************************************)
C19_Terminates ==
  (opc = "submit") ~>
    (OrchEnded /\ oresponse.kind = "returned"
       /\ oresponse.statusCode \in {200, 500})

C19_Witness ==
  /\ OrchEnded
  /\ CountOf(ocalls, "Poll") = MaxPolls
  /\ oresponse.kind = "returned"
  /\ oresponse.statusCode = 200
  /\ oresponse.processedRows >= 1

(***************************************************************************)
(* C20: the handler never lets an exception reach its caller: a failed     *)
(* Submit, poll, Fetch or enqueue and a FAILED or CANCELLED state each end *)
(* in a returned payload with statusCode 500 and an error message.         *)
(***************************************************************************)
C20_ErrorsBecome500 ==
  /\ oresponse.kind # "raised"
  /\ ( /\ OrchEnded
       /\ \/ SomeCallRejected
          \/ \E i \in 1..Len(ocalls) : PollReportedFailure(i) )
     => /\ oresponse.kind = "returned"
        /\ oresponse.statusCode = 500
        /\ oresponse.error # ""

C20_Witness ==
  /\ OrchEnded
  /\ Len(EnqueueCalls) = 2
  /\ EnqueueCalls[2].outcome = "rejected"
  /\ oresponse.statusCode = 500
  /\ oresponse.error = SdkErrorMessage

(***************************************************************************)
(* C21: a data row with fewer than 5 columns, a row without any cell       *)
(* included, never raises: when GetQueryResults returned and no call was   *)
(* rejected, the invocation ends with 200, every data row was enqueued in  *)
(* order, and the message of a short row leaves out the missing fields.    *)
(***************************************************************************)
C21_ShortRowNeverRaises ==
  /\ oresponse.error # TypeErrorMessage
  /\ (OrchEnded /\ FetchReturned /\ ~SomeCallRejected) =>
       /\ oresponse.kind = "returned"
       /\ oresponse.statusCode = 200
       /\ Len(EnqueueCalls) = (IF Len(orows) = 0 THEN 0 ELSE Len(orows) - 1)
       /\ \A i \in 1..Len(EnqueueCalls) :
            /\ Len(orows[i + 1].Data) = 0 => EnqueueCalls[i].arg = "{}"
            /\ orows[i + 1] = ShortRow =>
                 EnqueueCalls[i].arg =
                   (IF oversion = "part_006"
                      THEN "{\"sensorId\":\"s2\",\"temperatureC\":\"22.22\"}"
                      ELSE "{\"sensorid\":\"s2\",\"temperatureC\":\"22.22\"}")

(***************************************************************************)
(* C22: a poll that is not the first of its invocation directly follows    *)
(* one completed delay of 2000 ms, and that delay directly follows a poll  *)
(* that reported RUNNING or QUEUED.                                        *)
(***************************************************************************)
C22_OneDelayBetweenPolls ==
  \A i \in 1..Len(ocalls) :
    (IsCall(i, "Poll") /\ \E j \in 1..(i - 1) : IsCall(j, "Poll")) =>
      /\ i >= 3
      /\ IsCall(i - 1, "Sleep")
      /\ ocalls[i - 1].ms = 2000
      /\ ocalls[i - 1].outcome = "ok"
      /\ PollReportedBusy(i - 2)

C22_Witness ==
  /\ Len(ocalls) >= 6
  /\ PollReported(2, "QUEUED") /\ IsCall(3, "Sleep")
  /\ PollReported(4, "RUNNING") /\ IsCall(5, "Sleep")
  /\ IsCall(6, "Poll")

(***************************************************************************)
(* Vocabulary of the ingest properties.                                    *)
(***************************************************************************)
\* the request got as far as deriving a key
KeyDerived == ipc \in {"put", "done"} /\ iobjectKey # ""
\* the timestamp of the first record of the request
FirstStamp ==
  IF Len(irecords) = 0 THEN VUndefined ELSE GetField(irecords[1], "timestamp")
\* the first record carries a timestamp that is a date
StampParseable ==
  \/ FirstStamp.type = "string" /\ DateParse(FirstStamp.str).valid
  \/ FirstStamp.type = "number" /\ FirstStamp.num # 0
StampInstant ==
  IF FirstStamp.type = "string" THEN DateParse(FirstStamp.str).minutes
  ELSE FirstStamp.num \div MsPerMinute
\* raw/year=YYYY/month=MM/day=DD/<batchId>.json with a 36-character batchId
WellFormedKey(key, id) ==
  /\ Len(key) = 71
  /\ SubSeq(key, 1, 9) = "raw/year=" /\ AllDigits(SubSeq(key, 10, 13))
  /\ SubSeq(key, 14, 20) = "/month=" /\ AllDigits(SubSeq(key, 21, 22))
  /\ SubSeq(key, 23, 27) = "/day=" /\ AllDigits(SubSeq(key, 28, 29))
  /\ SubSeq(key, 30, 30) = "/"
  /\ Len(id) = 36 /\ SubSeq(key, 31, 66) = id
  /\ SubSeq(key, 67, 71) = ".json"
KeyYear(key) == ToNumber(SubSeq(key, 10, 13))
KeyMonth(key) == ToNumber(SubSeq(key, 21, 22))
KeyDay(key) == ToNumber(SubSeq(key, 28, 29))
\* the key names the calendar day, in UTC, that contains the instant t
KeyNamesDayOf(key, t) ==
  LET y == KeyYear(key)
      m == KeyMonth(key)
      d == KeyDay(key)
  IN /\ m \in 1..12
     /\ d >= 1
     /\ d <= DaysBeforeMonth(m + 1, IsLeapYear(y)) - DaysBeforeMonth(m, IsLeapYear(y))
     /\ MakeDay(y, m, d) * MinutesPerDay <= t
     /\ t < (MakeDay(y, m, d) + 1) * MinutesPerDay
\* the partition part of a key: everything before <batchId>.json
PartitionOf(key) == SubSeq(key, 1, Len(key) - 41)

(***************************************************************************)
(* C23: when the first record has a parseable timestamp, the object key is *)
(* raw/year=<YYYY>/month=<MM>/day=<DD>/<batchId>.json where the date is    *)
(* the UTC calendar day of that timestamp, month and day with 2 digits.    *)
(***************************************************************************)
C23_KeyIsUtcDateOfFirstTimestamp ==
  (KeyDerived /\ StampParseable) =>
    /\ WellFormedKey(iobjectKey, ibatchId)
    /\ KeyNamesDayOf(iobjectKey, StampInstant)
    /\ iobjectKey = "raw/year=" \o iyear \o "/month=" \o imonth \o "/day="
                      \o iday \o "/" \o ibatchId \o ".json"
    /\ iputs[1].Key = iobjectKey
    /\ FirstStamp = VString("2025-02-10T12:00:00Z") =>
         PartitionOf(iobjectKey) = "raw/year=2025/month=02/day=10/"
    /\ FirstStamp = VString("2025-02-10T23:30:00-05:00") =>
         PartitionOf(iobjectKey) = "raw/year=2025/month=02/day=11/"
    /\ FirstStamp = VString("2024-03-01T00:30:00+01:00") =>
         PartitionOf(iobjectKey) = "raw/year=2024/month=02/day=29/"
    /\ FirstStamp = VString("2026-01-01T00:00:00.000+02:00") =>
         PartitionOf(iobjectKey) = "raw/year=2025/month=12/day=31/"
    /\ FirstStamp = VString("2025-11-05") =>
         PartitionOf(iobjectKey) = "raw/year=2025/month=11/day=05/"

C23_Witness ==
  /\ ipc = "done"
  /\ iresponse.statusCode = 200
  /\ FirstStamp = VString("2025-02-10T23:30:00-05:00")
  /\ PartitionOf(iwrites[Len(iwrites)].Key) = "raw/year=2025/month=02/day=11/"

(***************************************************************************)
(* C24: when the first record has no timestamp, or one that is not a date, *)
(* the key is derived from the clock: it names the UTC day of the          *)
(* processing time, with a 4-digit year and 2-digit month and day.         *)
(***************************************************************************)
C24_FallbackToProcessingTime ==
  (KeyDerived /\ ~StampParseable) =>
    /\ inow \in Clocks
    /\ WellFormedKey(iobjectKey, ibatchId)
    /\ KeyNamesDayOf(iobjectKey, inow)

(***************************************************************************)
(* C25: an empty array payload does not make the handler raise, and its    *)
(* key names the current UTC date.                                         *)
(***************************************************************************)
C25_EmptyBatchUsesCurrentDate ==
  (ipc # "idle" /\ ibody.present /\ ibody.text = "[]") =>
    /\ iresponse.kind # "raised"
    /\ KeyDerived
    /\ irecords = <<>>
    /\ inow \in Clocks
    /\ WellFormedKey(iobjectKey, ibatchId)
    /\ KeyNamesDayOf(iobjectKey, inow)
    /\ inow = 29460015 =>
         PartitionOf(iobjectKey) = "raw/year=2026/month=01/day=05/"
    /\ inow = 30504959 =>
         PartitionOf(iobjectKey) = "raw/year=2027/month=12/day=31/"

C25_Witness ==
  /\ ipc = "done"
  /\ ibody.text = "[]"
  /\ iresponse.statusCode = 200
  /\ iresponse.message = "Wrote 0 records to S3"
  /\ PartitionOf(iobjectKey) = "raw/year=2027/month=12/day=31/"

\* the timestamp of the first record of a request text
FirstStampOf(text) ==
  LET recs == Records(JSONParse(text).value)
  IN IF Len(recs) = 0 THEN VUndefined ELSE GetField(recs[1], "timestamp")
\* the number of records of a request text
RecordCountOf(text) == Len(Records(JSONParse(text).value))
\* how often the text sub occurs in s
Occurrences(s, sub) ==
  Cardinality({i \in 1..(Len(s) - Len(sub) + 1) :
                 SubSeq(s, i, i + Len(sub) - 1) = sub})
\* positions of the line feeds of a text, and the lines between them
LineFeeds(s) == {i \in 1..Len(s) : CharAt(s, i) = "\n"}
NthLineFeed(s, k) ==
  IF k = 0 THEN 0
  ELSE IF k > Cardinality(LineFeeds(s)) THEN Len(s) + 1
  ELSE CHOOSE p \in LineFeeds(s) :
         Cardinality({q \in LineFeeds(s) : q < p}) = k - 1
LinesOf(s) ==
  [k \in 1..(Cardinality(LineFeeds(s)) + 1) |->
     SubSeq(s, NthLineFeed(s, k - 1) + 1, NthLineFeed(s, k) - 1)]
\* the payload is a JSON object or an array of JSON objects
IsRecordPayload(v) ==
  \/ v.type = "object"
  \/ /\ v.type = "array"
     /\ \A i \in 1..Len(v.items) : v.items[i].type = "object"

(***************************************************************************)
(* C26: the partition of a batch depends on its first record only: two     *)
(* stored objects whose requests have the same first-record timestamp lie  *)
(* under the same year/month/day, whatever their other records are; and a  *)
(* request sends at most one PutObject, one stored object per 200.         *)
(***************************************************************************)
C26_PartitionFromFirstRecordOnly ==
  /\ \A a, b \in 1..Len(iwrites) :
       ( /\ FirstStampOf(iwrites[a].request) = FirstStampOf(iwrites[b].request)
         /\ Truthy(FirstStampOf(iwrites[a].request)) )
       => PartitionOf(iwrites[a].Key) = PartitionOf(iwrites[b].Key)
  /\ Len(iputs) <= 1
  /\ \A a, b \in 1..Len(iwrites) : iwrites[a].Key = iwrites[b].Key => a = b
  /\ (ipc = "done" /\ iresponse.statusCode = 200) =>
       /\ Len(iputs) = 1
       /\ iwrites[Len(iwrites)].Key = iputs[1].Key
       /\ Occurrences(iputs[1].Key, "year=") = 1
       /\ Occurrences(iputs[1].Key, "month=") = 1
       /\ Occurrences(iputs[1].Key, "day=") = 1

C26_Witness ==
  /\ Len(iwrites) = 2
  /\ FirstStampOf(iwrites[1].request) = VString("2025-02-10T12:00:00Z")
  /\ FirstStampOf(iwrites[2].request) = VString("2025-02-10T12:00:00Z")
  /\ RecordCountOf(iwrites[1].request) = 1
  /\ RecordCountOf(iwrites[2].request) = 2
  /\ PartitionOf(iwrites[2].Key) = "raw/year=2025/month=02/day=10/"

(***************************************************************************)
(* C27: every line of the object a request sends carries exactly one       *)
(* objectKey, whose value is the key the object is written under and the   *)
(* objectKey of the 200 response; an objectKey that came with a record is  *)
(* gone.                                                                   *)
(***************************************************************************)
C27_EveryLineCarriesTheKey ==
  Len(iputs) = 1 =>
    /\ iputs[1].Key = iobjectKey
    /\ \A k \in 1..Len(irecords) :
         LET line == LinesOf(iputs[1].Body)[k]
         IN /\ Occurrences(line, "\"objectKey\":") = 1
            /\ Occurrences(line, "\"objectKey\":\"" \o iputs[1].Key \o "\"") = 1
            /\ Occurrences(line, "raw/old.json") = 0
    /\ (ipc = "done" /\ iresponse.statusCode = 200) =>
         /\ iresponse.objectKey = iputs[1].Key
         /\ iwrites[Len(iwrites)].Key = iputs[1].Key
         /\ iwrites[Len(iwrites)].Body = iputs[1].Body

C27_Witness ==
  /\ ipc = "done"
  /\ iresponse.statusCode = 200
  /\ Len(irecords) = 3
  /\ HasField(irecords[1], "objectKey")
  /\ GetField(irecords[1], "objectKey") = VString("raw/old.json")

(***************************************************************************)
(* C28: the body sent for n records is n lines separated by line feeds,    *)
(* line i the JSON object of record i, and is never a JSON array.          *)
(***************************************************************************)
C28_BodyIsNewlineDelimited ==
  (Len(iputs) = 1 /\ IsRecordPayload(JSONParse(ibody.text).value)) =>
    LET body == iputs[1].Body
        n == Len(irecords)
    IN /\ n = RecordCountOf(ibody.text)
       /\ n = 0 => body = ""
       /\ n >= 1 =>
            /\ Cardinality(LineFeeds(body)) = n - 1
            /\ CharAt(body, 1) # "["
            /\ \A k \in 1..n :
                 LET line == LinesOf(body)[k]
                 IN /\ CharAt(line, 1) = "{"
                    /\ CharAt(line, Len(line)) = "}"
                    /\ \A f \in 1..Len(irecords[k].fields) :
                         irecords[k].fields[f].key # "objectKey" =>
                           Occurrences(line,
                             JSONQuote(irecords[k].fields[f].key) \o ":"
                               \o Stringify(irecords[k].fields[f].val)) = 1
       /\ irecords = <<Keyed, OtherDate, Multiline>> =>
            body =
              "{\"objectKey\":\"" \o iobjectKey
                \o "\",\"sensorId\":\"S5\",\"timestamp\":\"2025-02-10T12:00:00Z\"}\n"
                \o "{\"sensorId\":\"S9\",\"timestamp\":\"2024-07-04T00:00:00Z\","
                \o "\"objectKey\":\"" \o iobjectKey \o "\"}\n"
                \o "{\"sensorId\":\"S\\n6\",\"timestamp\":\"2025-02-10T12:00:00Z\","
                \o "\"objectKey\":\"" \o iobjectKey \o "\"}"

C28_Witness ==
  /\ ipc = "done"
  /\ iresponse.statusCode = 200
  /\ irecords = <<Keyed, OtherDate, Multiline>>
  /\ Cardinality(LineFeeds(iwrites[Len(iwrites)].Body)) = 2

(***************************************************************************)
(* C29: a payload that is neither a JSON object nor an array of JSON       *)
(* objects is answered with a 4xx, and neither a key nor a PutObject is    *)
(* made for it.                                                            *)
(***************************************************************************)
C29_NonRecordPayloadRejected ==
  ( /\ ipc # "idle"
    /\ ibody.present /\ ibody.text # ""
    /\ ~JSONParse(ibody.text).threw
    /\ ~IsRecordPayload(JSONParse(ibody.text).value) )
  => /\ ipc = "done"
     /\ iresponse.statusCode \in 400..499
     /\ iobjectKey = ""
     /\ iputs = <<>>

(***************************************************************************)
(* C30: a request without a body, or with a body that is not JSON, is      *)
(* answered 400 with an error message, and no PutObject is sent and no     *)
(* object stored for it.                                                   *)
(***************************************************************************)
C30_BadBodyGets400 ==
  (ipc # "idle" /\ (~ibody.present \/ ibody.text = "" \/ ibody.text \in InvalidTexts))
  => /\ ipc = "done"
     /\ iresponse.kind = "returned"
     /\ iresponse.statusCode = 400
     /\ iresponse.error # ""
     /\ iputs = <<>>
     /\ iobjectKey = ""
     /\ \A w \in 1..Len(iwrites) : iwrites[w].request # ibody.text

C30_Witness ==
  /\ ipc = "done"
  /\ ibody.text = "invalid-json"
  /\ iresponse.statusCode = 400
  /\ iresponse.error = "Invalid JSON format"
  /\ Len(iwrites) = 1

(***************************************************************************)
(* C31: a request for which a key was derived makes exactly one PutObject  *)
(* call; when the call succeeds the answer is 200 with the object key and  *)
(* the object is stored, when it fails the answer is 500 with the error    *)
(* message, nothing is stored under the key and no second call is made; a  *)
(* request that was turned away makes no call.                             *)
(***************************************************************************)
C31_OnePutPerAcceptedRequest ==
  /\ KeyDerived =>
       /\ Len(iputs) = 1
       /\ iputs[1].Key = iobjectKey
       /\ iputs[1].Bucket = BUCKET_NAME
  /\ (ipc = "done" /\ ~KeyDerived) => Len(iputs) = 0
  /\ (ipc = "done" /\ KeyDerived) =>
       /\ iputs[1].outcome \in {"ok", "rejected"}
       /\ iputs[1].outcome = "ok" =>
            /\ iresponse.kind = "returned"
            /\ iresponse.statusCode = 200
            /\ iresponse.objectKey = iobjectKey
            /\ \E w \in 1..Len(iwrites) :
                 iwrites[w].Key = iobjectKey /\ iwrites[w].Body = iputs[1].Body
       /\ iputs[1].outcome = "rejected" =>
            /\ iresponse.kind = "returned"
            /\ iresponse.statusCode = 500
            /\ iresponse.error = S3ErrorMessage
            /\ iresponse.objectKey = ""
            /\ \A w \in 1..Len(iwrites) : iwrites[w].Key # iobjectKey

C31_Witness ==
  /\ ipc = "done"
  /\ KeyDerived
  /\ Len(iputs) = 1
  /\ iputs[1].outcome = "rejected"
  /\ iresponse.statusCode = 500
  /\ iresponse.error = S3ErrorMessage
  /\ Len(iwrites) = 1

(***************************************************************************)
(* C35: when an invocation of the orchestrator or of the dispatcher has    *)
(* ended, every custom subsegment it opened has been closed exactly once.  *)
(***************************************************************************)
C35_SubsegmentsClosedOnce ==
  /\ OrchEnded =>
       \A i \in 1..Len(osubsegments) : osubsegments[i].closes = 1
  /\ result # "none" =>
       \A i \in 1..Len(subsegments) : subsegments[i].closes = 1

(***************************************************************************)
(* C38: a poll whose status, as the handler reads it, is neither FAILED    *)
(* nor CANCELLED is directly followed by one delay of 2000 ms and that     *)
(* delay by no second one, the poll reporting SUCCEEDED included, so the   *)
(* GetQueryResults call directly follows a completed delay; a poll read    *)
(* as FAILED or CANCELLED is the last call of its invocation.              *)
(***************************************************************************)
C38_DelayAfterEveryLivePoll ==
  \A i \in 1..Len(ocalls) :
    /\ (IsCall(i, "Poll") /\ ocalls[i].outcome = "ok") =>
         IF PolledStatus(oversion, ocalls[i].value) \in {"FAILED", "CANCELLED"}
           THEN i = Len(ocalls)
           ELSE /\ Len(ocalls) > i
                /\ IsCall(i + 1, "Sleep")
                /\ ocalls[i + 1].ms = 2000
                /\ Len(ocalls) > i + 1 =>
                     /\ ocalls[i + 1].outcome = "ok"
                     /\ ~IsCall(i + 2, "Sleep")
    /\ IsCall(i, "Fetch") =>
         /\ i >= 3
         /\ IsCall(i - 1, "Sleep")
         /\ ocalls[i - 1].ms = 2000
         /\ ocalls[i - 1].outcome = "ok"
         /\ PollReported(i - 2, "SUCCEEDED") \/ ~PollReportedBusy(i - 2)

C38_Witness ==
  /\ Len(ocalls) >= 6
  /\ PollReported(2, "RUNNING") /\ IsCall(3, "Sleep")
  /\ PollReported(4, "SUCCEEDED") /\ IsCall(5, "Sleep")
  /\ ocalls[5].ms = 2000
  /\ IsCall(6, "Fetch")

(***************************************************************************)
(* Vocabulary of the repeated orchestrator invocation.                     *)
(***************************************************************************)
\* bodies of the messages the current invocation has put on the queue
RunMessages ==
  LET sent == SelectSeq(ocalls,
                LAMBDA c : c.op = "Enqueue" /\ c.outcome = "ok")
  IN [i \in 1..Len(sent) |-> sent[i].arg]
\* the messages earlier invocations left on the queue
EarlierMessages == SubSeq(queue, 1, Len(queue) - Len(RunMessages))
\* the invocation ended because its last SendMessage call was rejected
EnqueueFailed ==
  /\ OrchEnded
  /\ Len(ocalls) > 0
  /\ IsCall(Len(ocalls), "Enqueue")
  /\ ocalls[Len(ocalls)].outcome = "rejected"

(***************************************************************************)
(* C39: the messages an invocation has enqueued stay at the end of the     *)
(* queue whatever happens next; when the SendMessage of row k is rejected  *)
(* the invocation ends with 500 and no processedRows, with the messages    *)
(* of rows 1..k-1 on the queue; and when the function is invoked again     *)
(* over the same result set and ends with 200, every message an earlier    *)
(* invocation left on the queue has been enqueued a second time.           *)
(***************************************************************************)
C39_PartialEnqueueIsRepeated ==
  /\ Len(queue) >= Len(RunMessages)
  /\ SubSeq(queue, Len(queue) - Len(RunMessages) + 1, Len(queue)) = RunMessages
  /\ EnqueueFailed =>
       LET k == Len(EnqueueCalls)
       IN /\ oresponse.kind = "returned"
          /\ oresponse.statusCode = 500
          /\ oresponse.error = SdkErrorMessage
          /\ oresponse.processedRows = 0
          /\ oresponse.message = ""
          /\ Len(RunMessages) = k - 1
          /\ \A i \in 1..(k - 1) :
               RunMessages[i] = MessageBody(oversion, odataRows[i])
  /\ (oruns >= 2 /\ OrchEnded /\ oresponse.statusCode = 200) =>
       /\ \A i \in 1..Len(EarlierMessages) :
            \E j \in 1..Len(RunMessages) : RunMessages[j] = EarlierMessages[i]
       /\ oruns = 2 =>
            /\ Len(EarlierMessages) <= Len(RunMessages)
            /\ \A i \in 1..Len(EarlierMessages) :
                 EarlierMessages[i] = RunMessages[i]

C39_Witness ==
  /\ oruns = 2
  /\ OrchEnded
  /\ oresponse.statusCode = 200
  /\ otable.rows = <<HeaderRow, FullRow, ShortRow>>
  /\ Len(queue) = 3
  /\ queue[1] = MessageBody(oversion, FullRow)
  /\ queue[2] = MessageBody(oversion, FullRow)
  /\ queue[3] = MessageBody(oversion, ShortRow)

(***************************************************************************)
(* Vocabulary of the sink properties.                                      *)
(***************************************************************************)
\* the rows the k-th request added to the table
RowsOf(k) == SelectSeq(stable, LAMBDA r : r.received_at = k)
\* ParseJSON, worked out once for the texts the model sends to the sink
Decode(t) == ParseJSON(t)
\* the body of the k-th request as JSON
Decoded(k) == Decode(sanswers[k].body)
CarriesArray(k) == ~Decoded(k).threw /\ Decoded(k).value.type = "array"
CarriesOtherJson(k) == ~Decoded(k).threw /\ Decoded(k).value.type # "array"
\* an entry has a field under one of two names, with a value
HasValue(entry, camel, lower) ==
  \/ HasField(entry, camel) /\ GetField(entry, camel).type # "null"
  \/ HasField(entry, lower) /\ GetField(entry, lower).type # "null"
Complete(entry) ==
  /\ HasValue(entry, "sensorId", "sensorid")
  /\ HasValue(entry, "temperatureC", "temperaturec")
  /\ HasValue(entry, "rawHumidity", "rawhumidity")
  /\ HasValue(entry, "timestamp", "timestamp")
  /\ HasValue(entry, "objectKey", "objectkey")
\* the entries of the k-th request that are complete, as rows
CompleteRows(k) ==
  LET kept == SelectSeq(Decoded(k).value.items, Complete)
  IN [i \in 1..Len(kept) |-> Row(kept[i], k)]

(***************************************************************************)
(* C36: a request whose method is not POST is answered 405 and a POST      *)
(* whose body is JSON but not an array is answered 400, and neither adds   *)
(* a row; only a POST carrying a JSON array is answered 200 or adds rows.  *)
(* (A POST whose table set-up failed has no answer: the function raised.)  *)
(***************************************************************************)
C36_OnlyPostedArraysAccepted ==
  /\ \A k \in 1..Len(sanswers) :
       LET a == sanswers[k]
       IN /\ a.method # "POST" =>
               /\ a.kind = "returned"
               /\ a.status = 405
               /\ a.text = "Method Not Allowed"
               /\ RowsOf(k) = <<>>
          /\ (a.method = "POST" /\ a.kind = "returned" /\ CarriesOtherJson(k)) =>
               /\ a.status = 400
               /\ a.error = "Invalid input: Expected an array"
               /\ RowsOf(k) = <<>>
          /\ (a.status = 200 \/ RowsOf(k) # <<>>) =>
               a.method = "POST" /\ CarriesArray(k)
  /\ spc = "insert" => sreq.method = "POST" /\ spayload.type = "array"

C36_Witness ==
  /\ Len(sanswers) = 2
  /\ sanswers[1].method = "PUT"
  /\ sanswers[1].status = 405
  /\ CarriesArray(1)
  /\ sanswers[2].method = "POST"
  /\ sanswers[2].status = 400
  /\ Decoded(2).value = LowerEntry
  /\ stable = <<>>

(***************************************************************************)
(* C37: a POSTed array whose INSERTs all succeed is answered 200, the rows *)
(* it added are its complete entries, in order, and recordsInserted is     *)
(* their number, 0 included; no entry of another kind ends the batch.      *)
(***************************************************************************)
C37_CompleteEntriesInserted ==
  \A k \in 1..Len(sanswers) :
    LET a == sanswers[k]
    IN ( /\ a.method = "POST"
         /\ CarriesArray(k)
         /\ a.error \notin {DbErrorMessage, ImportErrorMessage} ) =>
         /\ a.kind = "returned"
         /\ a.status = 200
         /\ RowsOf(k) = CompleteRows(k)
         /\ a.recordsInserted = Len(RowsOf(k))

(***************************************************************************)
(* Vocabulary of the delivery properties.                                  *)
(***************************************************************************)
\* a row without the time it was received
Content(row) == [row EXCEPT !.received_at = 0]
\* how many rows of the table hold the given content
Copies(content) ==
  Cardinality({i \in 1..Len(stable) : Content(stable[i]) = content})
\* the k-th request ended because an INSERT failed
InsertFailed(k) ==
  sanswers[k].kind = "returned" /\ sanswers[k].error = DbErrorMessage
\* s is a proper prefix of t
ProperPrefix(s, t) ==
  Len(s) < Len(t) /\ \A i \in 1..Len(s) : s[i] = t[i]

(***************************************************************************)
(* C40: a request that ends because the INSERT of an entry failed is       *)
(* answered 500 and leaves the rows of the complete entries before it in   *)
(* the table; the next request the sink receives carries the same batch;   *)
(* and once a later request with that batch is answered 200, each of       *)
(* those rows is in the table at least twice.                              *)
(***************************************************************************)
C40_PartialBatchIsPersistedTwice ==
  /\ \A k \in 1..Len(sanswers) :
       InsertFailed(k) =>
         /\ sanswers[k].status = 500
         /\ ProperPrefix(RowsOf(k), CompleteRows(k))
         /\ k < Len(sanswers) => sanswers[k + 1].body = sanswers[k].body
         /\ (k = Len(sanswers) /\ spc \notin {"idle", "done"}) =>
              sreq.body = sanswers[k].body
  /\ \A k \in 1..Len(sanswers) : \A m \in (k + 1)..Len(sanswers) :
       (InsertFailed(k) /\ sanswers[m].status = 200) =>
         /\ sanswers[m].body = sanswers[k].body
         /\ RowsOf(m) = CompleteRows(m)
         /\ \A i \in 1..Len(RowsOf(k)) :
              /\ Content(RowsOf(m)[i]) = Content(RowsOf(k)[i])
              /\ Copies(Content(RowsOf(k)[i])) >= 2

C40_Witness ==
  /\ Len(sanswers) = 2
  /\ InsertFailed(1)
  /\ sanswers[1].status = 500
  /\ sanswers[2].status = 200
  /\ sanswers[2].recordsInserted = 2
  /\ Len(posts) = 2
  /\ posts[1] = posts[2]
  /\ Len(stable) = 3
  /\ Content(stable[1]) = Content(stable[2])
  /\ Content(stable[3]) # Content(stable[1])
  /\ result = "returned"

(***************************************************************************)
(* C33: a message on the queue whose body is JSON is eventually part of a  *)
(* POST that the sink answered with a 2xx status.                          *)
(***************************************************************************)
Acknowledged(b) ==
  \E k \in 1..Len(sanswers) :
    /\ sanswers[k].method = "POST"
    /\ ResponseOk(sanswers[k].status)
    /\ CarriesArray(k)
    /\ \E i \in 1..Len(Decoded(k).value.items) :
         Decoded(k).value.items[i] = Decode(b).value
Waiting(b) ==
  /\ ~Decode(b).threw
  /\ \E i \in 1..Len(queue) : queue[i] = b

C33_DecodableEventuallyDelivered ==
  \A b \in DeliveryBodies : Waiting(b) ~> Acknowledged(b)

\* the same for every body that does not decode to null
OtherThanNullDelivered ==
  \A b \in DeliveryBodies \ {"null"} : Waiting(b) ~> Acknowledged(b)

(***************************************************************************)
(* C32: when two dispatcher invocations interleave, each one has its own   *)
(* attempt counter (the number of its own failed attempts) and its own     *)
(* batch (every POST carries the decoded records of its own event), each   *)
(* makes at most 3 POSTs, and its outcome follows from the answers to its  *)
(* own POSTs alone: it returns when nothing decoded or its last POST       *)
(* succeeded, and raises when its own 3 attempts failed.                   *)
(***************************************************************************)
OwnFailures(inv) ==
  Cardinality({i \in 1..Len(inv.outcomes) : AttemptRaised(inv.outcomes[i])})
SelfContained(inv) ==
  /\ Len(inv.posts) <= 3
  /\ Len(inv.outcomes) <= Len(inv.posts)
  /\ Len(inv.posts) <= Len(inv.outcomes) + 1
  /\ inv.attempt = OwnFailures(inv)
  /\ Len(inv.posts) <= OwnFailures(inv) + 1
  /\ \A i \in 1..Len(inv.posts) :
       inv.posts[i] = RequestBody(ParseRecords(inv.event))
  /\ inv.result = "returned" <=>
       /\ inv.pc = "done"
       /\ \/ ParseRecords(inv.event) = <<>> /\ inv.posts = <<>>
          \/ /\ inv.outcomes # <<>>
             /\ AttemptSucceeded(inv.outcomes[Len(inv.outcomes)])
  /\ inv.result = "raised" <=>
       /\ inv.pc = "done"
       /\ Len(inv.outcomes) = 3
       /\ OwnFailures(inv) = 3

C32_InvocationsShareNothing ==
  /\ SelfContained(Locals)
  /\ SelfContained(other)

\* both invocations are in flight, with different batches and different
\* numbers of failed attempts
C32_Witness ==
  /\ pc = "fetch"
  /\ attempt = 2
  /\ other.pc = "sleep"
  /\ other.attempt = 1
  /\ posts[1] # other.posts[1]

(***************************************************************************)
(* C34: when nothing fails, a request of 2 readings with the same          *)
(* timestamp stores exactly one object of 2 lines; a run of the            *)
(* orchestrator whose result set is the header row and the rows of those   *)
(* 2 lines enqueues exactly 2 messages; and a dispatcher invocation that   *)
(* receives both messages in one batch makes exactly one POST, whose body  *)
(* is an array of 2 elements, the entries of the 2 readings in order.      *)
(***************************************************************************)
TwoSameStamp ==
  /\ ipc = "done"
  /\ iresponse.statusCode = 200
  /\ Len(irecords) = 2
  /\ GetField(irecords[1], "timestamp") = GetField(irecords[2], "timestamp")
\* the orchestrator has ended on a result set of the header and both rows
BothRowsQueried ==
  /\ TwoSameStamp
  /\ opc = "done"
  /\ Len(orows) = 3
  /\ orows = EngineRows(iwrites)
\* the dispatcher has ended on a batch of both messages
BothDelivered ==
  /\ BothRowsQueried
  /\ Ended
  /\ Len(event) = 2
  /\ event = RunMessages

C34_EndToEnd ==
  /\ TwoSameStamp =>
       /\ Len(iputs) = 1
       /\ Len(iwrites) = 1
       /\ Len(LinesOf(iwrites[1].Body)) = 2
       /\ \A k \in 1..2 : CharAt(LinesOf(iwrites[1].Body)[k], 1) = "{"
  /\ BothRowsQueried =>
       /\ oresponse.statusCode = 200
       /\ oresponse.processedRows = 2
       /\ Len(EnqueueCalls) = 2
       /\ Len(RunMessages) = 2
  /\ BothDelivered =>
       /\ result = "returned"
       /\ Len(posts) = 1
       /\ ~ParseJSON(posts[1]).threw
       /\ ParseJSON(posts[1]).value.type = "array"
       /\ Len(ParseJSON(posts[1]).value.items) = 2
       /\ \A k \in 1..2 :
            ParseJSON(posts[1]).value.items[k]
              = ReadingEntry(irecords[k], iobjectKey)

C34_Witness ==
  /\ BothDelivered
  /\ Len(posts) = 1
  /\ irecords = <<ReadingA, ReadingB>>

====
